---- MODULE Spec2Model ----
(***************************************************************************)
(* Bulk hospital processing pipeline: job submission with idempotency     *)
(* (app/services/job_service.py, app/core/idempotency.py), the job store  *)
(* (app/repositories/job_repository.py) and the batch orchestrator        *)
(* (app/tasks/tasks.py).                                                   *)
(*                                                                         *)
(* Every repository / Redis / broker call is one transaction of its own,  *)
(* so every such call is one atomic step and concurrent HTTP handlers and *)
(* Celery workers interleave between those steps.                          *)
(***************************************************************************)
EXTENDS Integers, Sequences, FiniteSets, TLC

\* ------------------------------------------------------------------ bounds
MaxCalls == 2        \* submit_bulk_job invocations (submission-centred runs)
MaxRuns == 2         \* deliveries of units of work (orchestrator-centred runs)
OrchCalls == 1       \* submissions in the orchestrator-centred specification
SubmitRuns == 1      \* deliveries in the submission-centred specification
MaxItems == 2        \* hospitals in one submission (the CSV has >= 1 row)
MaxExpire == 1       \* TTL expiries of idempotency entries
MaxTicks == 2        \* clock ticks observed by the rate-limiter runs
MaxAcquires == 11    \* acquire() calls per process in the rate-limiter runs
MaxGate == 2         \* client calls in flight at once in the client-centred runs
MaxFailCounter == 7  \* cap of the breaker's failure counter
MaxLegacyJobs == 4   \* jobs created in the in-memory job manager
MaxUpdates == 11     \* progress updates of one job of the job manager
MaxStamps == 4       \* completion time stamps taken by the job manager

Keys == {"k1", "k2"}
CallIds == 1..MaxCalls
JobIds == 1..MaxCalls
RunIds == 1..MaxRuns
Workers == {"worker1", "worker2"}      \* Celery worker processes
Procs == Workers \cup {"api"}          \* ... and the API process
GateIds == 1..MaxGate
LegacyIds == 1..MaxLegacyJobs

None == "None"

\* ------------------------------------------------------- domain/schemas.py
PENDING == "pending"
PROCESSING == "processing"
COMPLETED == "completed"
FAILED == "failed"
Terminal == {COMPLETED, FAILED}

AcceptedMessage == "Job accepted and queued for processing. Use the job_id to check status."

JobSubmitResponse(job_id, status, message, total_hospitals) ==
    [job_id |-> job_id, status |-> status, message |-> message,
     total_hospitals |-> total_hospitals]

NoResponse == JobSubmitResponse(0, None, None, 0)

HospitalProcessingResult(row, hospital_id, status, error_message) ==
    [row |-> row, hospital_id |-> hospital_id, status |-> status,
     error_message |-> error_message]

BulkCreateResponse(batch_id, total, processed, failed, batch_activated, hospitals) ==
    [batch_id |-> batch_id, total_hospitals |-> total,
     processed_hospitals |-> processed, failed_hospitals |-> failed,
     batch_activated |-> batch_activated, hospitals |-> hospitals]

NoResult == BulkCreateResponse(0, 0, 0, 0, FALSE, <<>>)

\* ---------------------------------------------------- core/idempotency.py
\* The cached value is the JSON text of response.model_dump(); the text is
\* modelled as the tuple of the field values in field order, <<>> = no entry.
JsonDumps(resp) ==
    <<resp.job_id, resp.status, resp.message, resp.total_hospitals>>

JsonLoads(text) ==
    JobSubmitResponse(text[1], text[2], text[3], text[4])

\* (Variant: a lookup that never finds the entry.)
IdempotencyGetNeverHits(store, key, reachable) == <<>>

\* RedisIdempotencyStore.get: a RedisError is swallowed and reported as a miss.
IdempotencyGet(store, key, reachable) ==
    IF reachable /\ store[key] # <<>> THEN store[key] ELSE <<>>

\* RedisIdempotencyStore.set: a RedisError is swallowed, nothing is stored.
IdempotencySet(store, key, value, reachable) ==
    IF reachable THEN [store EXCEPT ![key] = JsonDumps(value)] ELSE store

\* ------------------------------------------ repositories/job_repository.py
\* Job.progress_percentage, in hundredths of a percent: round(p / t * 100, 2).
\* With at most max_csv_rows = 20 items no value lies on a rounding tie.
ProgressPercentage(jm) ==
    IF jm.total_hospitals = 0 THEN 0
    ELSE (2 * 10000 * jm.processed_hospitals + jm.total_hospitals)
             \div (2 * jm.total_hospitals)

\* Timestamps: started_at is 0 (NULL) or 1 (set); completed_at is 0 (NULL) or
\* the ordinal of the datetime.now() value written last (each write of
\* completed_at stores a new clock reading).
AbsentJob ==
    [status |-> "absent", total_hospitals |-> 0, processed_hospitals |-> 0,
     failed_hospitals |-> 0, started_at |-> 0, completed_at |-> 0,
     result |-> NoResult, error |-> None]

RepoCreate(total_hospitals) ==
    [status |-> PENDING, total_hospitals |-> total_hospitals,
     processed_hospitals |-> 0, failed_hospitals |-> 0, started_at |-> 0,
     completed_at |-> 0, result |-> NoResult, error |-> None]

RepoUpdateStatus(jm, status) ==
    [jm EXCEPT !.status = status,
               !.started_at = IF status = PROCESSING /\ jm.started_at = 0 THEN 1
                              ELSE IF status \in Terminal /\ jm.started_at = 0 THEN 1
                              ELSE jm.started_at,
               !.completed_at = IF status \in Terminal THEN jm.completed_at + 1
                                ELSE jm.completed_at]

\* (Variant: processed counts every item, as the legacy job manager did.)
RepoSetResultCountsAll(jm, result) ==
    [jm EXCEPT !.result = result,
               !.processed_hospitals = result.total_hospitals,
               !.failed_hospitals = result.failed_hospitals]

RepoSetResult(jm, result) ==
    [jm EXCEPT !.result = result,
               !.processed_hospitals = result.processed_hospitals,
               !.failed_hospitals = result.failed_hospitals]

\* (Variant: the status is set but the error text is not stored.)
RepoSetErrorDropsText(jm, error) ==
    [jm EXCEPT !.status = FAILED,
               !.started_at = 1,
               !.completed_at = jm.completed_at + 1]

\* (Variant: the error text is stored but the status is left as it was.)
RepoSetErrorKeepsStatus(jm, error) ==
    [jm EXCEPT !.error = error]

RepoSetError(jm, error) ==
    [jm EXCEPT !.error = error,
               !.status = FAILED,
               !.started_at = 1,
               !.completed_at = jm.completed_at + 1]

\* ---------------------------------------------- app_old/job_manager.py
\* The in-memory job manager. A job id is the ordinal of the uuid4 call that
\* made it; completed_at is the ordinal of the datetime.now() reading among
\* the completion stamps (0 = None), the time stamp of an update its ordinal
\* among the updates of its job.
recent_updates_maxlen == 10

default_max_jobs == 1000

LegacyTotal == 10

JobProgressUpdate(hospital_name, status, timestamp) ==
    [hospital_name |-> hospital_name, status |-> status, timestamp |-> timestamp]

\* Job.__init__; log is the list of every update made, kept for the properties.
Job(total_hospitals) ==
    [present |-> TRUE, status |-> PENDING, total_hospitals |-> total_hospitals,
     processed_hospitals |-> 0, failed_hospitals |-> 0, completed_at |-> 0,
     current_hospital |-> None, recent_updates |-> <<>>, log |-> <<>>]

\* No entry in JobManager.jobs.
NoJob ==
    [present |-> FALSE, status |-> None, total_hospitals |-> 0,
     processed_hospitals |-> 0, failed_hospitals |-> 0, completed_at |-> 0,
     current_hospital |-> None, recent_updates |-> <<>>, log |-> <<>>]

\* JobManager.__init__: made tells the manager built by a caller from the
\* module's own job_manager = JobManager().
JobManager(max_jobs) ==
    [max_jobs |-> max_jobs, jobs |-> [j \in LegacyIds |-> NoJob],
     next |-> 1, clock |-> 0, made |-> FALSE]

\* deque(maxlen=...).append
DequeAppend(d, x, maxlen) ==
    IF Len(d) < maxlen THEN Append(d, x) ELSE Append(Tail(d), x)

\* Job.update_progress
\* (Variant: only a success counts as processed, as the job repository does.)
UpdateProgressCountsSuccesses(job, hospital_name, success, timestamp) ==
    LET update == JobProgressUpdate(hospital_name,
                                    IF success THEN "success" ELSE "failed",
                                    timestamp)
    IN [job EXCEPT !.processed_hospitals = IF success THEN @ + 1 ELSE @,
                   !.failed_hospitals = IF success THEN @ ELSE @ + 1,
                   !.current_hospital = hospital_name,
                   !.recent_updates = DequeAppend(@, update, recent_updates_maxlen),
                   !.log = Append(@, update)]

UpdateProgress(job, hospital_name, success, timestamp) ==
    LET update == JobProgressUpdate(hospital_name,
                                    IF success THEN "success" ELSE "failed",
                                    timestamp)
    IN [job EXCEPT !.processed_hospitals = @ + 1,
                   !.failed_hospitals = IF success THEN @ ELSE @ + 1,
                   !.current_hospital = hospital_name,
                   !.recent_updates = DequeAppend(@, update, recent_updates_maxlen),
                   !.log = Append(@, update)]

\* Job.to_status_response (the fields the properties read)
ToStatusResponse(job_id, job) ==
    [job_id |-> job_id, status |-> job.status,
     total_hospitals |-> job.total_hospitals,
     processed_hospitals |-> job.processed_hospitals,
     failed_hospitals |-> job.failed_hospitals,
     completed_at |-> job.completed_at,
     current_hospital |-> job.current_hospital,
     recent_updates |-> job.recent_updates]

Retained(jobs) == {j \in LegacyIds : jobs[j].present}

\* JobManager._cleanup_old_jobs: when more than max_jobs jobs are kept, the
\* finished ones are sorted by completed_at and the first len - max_jobs of
\* them (or all of them, if fewer) are deleted.
\* (Variant: the jobs are sorted by creation and deleted whatever their status.)
CleanupOldJobsAnyStatus(jobs, max_jobs) ==
    LET surplus == Cardinality(Retained(jobs)) - max_jobs
        removed == {j \in Retained(jobs) :
                        Cardinality({i \in Retained(jobs) : i < j}) < surplus}
    IN [j \in LegacyIds |-> IF j \in removed THEN NoJob ELSE jobs[j]]

CleanupOldJobs(jobs, max_jobs) ==
    LET completed_jobs == {j \in Retained(jobs) :
                               /\ jobs[j].status \in Terminal
                               /\ jobs[j].completed_at # 0}
        jobs_to_remove == Cardinality(Retained(jobs)) - max_jobs
        removed == {j \in completed_jobs :
                        Cardinality({i \in completed_jobs :
                                         jobs[i].completed_at < jobs[j].completed_at})
                            < jobs_to_remove}
    IN IF Cardinality(Retained(jobs)) <= max_jobs THEN jobs
       ELSE [j \in LegacyIds |-> IF j \in removed THEN NoJob ELSE jobs[j]]

\* -------------------------------------------------------------- variables
VARIABLES
    call,       \* submit_bulk_job invocations (one HTTP request each)
    cache,      \* Redis idempotency entries, key -> JSON text
    jobs,       \* rows of the jobs table
    nextJob,    \* uuid4 of job_repository.create: the next unused job id
    queue,      \* units of work in the Celery broker
    run,        \* executions of process_bulk_hospitals_task
    nextBatch,  \* uuid4 of the orchestrator: the next unused batch id
    epoch,      \* per key, the number of TTL expiries so far
    lastResp,   \* per key, the response last returned within the TTL window
    limiter,    \* per process, the level of its AsyncLimiter bucket
    acquired,   \* per process, the number of acquire() calls that returned
    now,        \* the clock, in drip intervals (time_period / max_rate)
    gate,       \* client calls (create_hospital, activate_batch, delete_batch)
    breaker,    \* circuit breaker storage, by storage key
    reply,      \* the answer last given by a status query or manual activation
    manager     \* the JobManager of the earlier, in-memory application

limVars == <<limiter, acquired, now>>

gateVars == <<gate, breaker>>

apiVars == <<reply>>

legacyVars == <<manager>>

resVars == <<limVars, gateVars, apiVars, legacyVars>>

vars == <<call, cache, jobs, nextJob, queue, run, nextBatch, epoch, lastResp,
          resVars>>

IdleCall ==
    [pc |-> "idle", key |-> "k1", n |-> 0, job |-> 0, resp |-> NoResponse,
     failure |-> None, dispatched |-> FALSE, prior |-> NoResponse,
     priorStored |-> FALSE, overlap |-> FALSE, storeFailed |-> FALSE,
     expired |-> FALSE, epoch |-> 0]

\* A client call: its position, the attempts made so far, the tokens it has
\* acquired from the rate limiter, the breaker state that admitted it, how it
\* ended, and how its last request ended (an answer with a 2xx status, any
\* other answer, or an exception).
IdleGate ==
    [pc |-> "idle", op |-> "create_hospital", proc |-> "worker1", attempts |-> 0,
     acquires |-> 0, admitted |-> None, error |-> None, result |-> None,
     answer |-> None]

\* hospital_api_circuit_breaker = APICircuitBreaker("hospital_api"): one breaker
\* whose state, failure counter and opening time live in Redis.
BreakerName == "hospital_api"

BreakerKeys == {BreakerName} \cup Procs    \* only the endpoint name is ever used

\* CircuitRedisStorage(STATE_CLOSED, redis_client): elapsed tells whether
\* reset_timeout has passed since the opening time; opened_by is the process
\* whose failure opened the breaker last.
ClosedBreaker ==
    [state |-> "closed", fail_counter |-> 0, elapsed |-> FALSE, opened_by |-> None]

\* No status query and no manual activation has been answered yet.
NoReply ==
    [endpoint |-> None, arg |-> 0, code |-> 0, ops |-> <<>>,
     body |-> [detail |-> None]]

IdleRun ==
    [pc |-> "idle", job |-> 0, n |-> 0, batch_id |-> 0, results |-> <<>>,
     activation |-> None, activate_calls |-> 0, batch_activated |-> FALSE,
     response |-> NoResult, error |-> None, terminalAtStart |-> FALSE,
     remote_ops |-> {}, batch_ids_sent |-> {}]

Init ==
    /\ call = [c \in CallIds |-> IdleCall]
    /\ cache = [k \in Keys |-> <<>>]
    /\ jobs = [j \in JobIds |-> AbsentJob]
    /\ nextJob = 1
    /\ queue = {}
    /\ run = [r \in RunIds |-> IdleRun]
    /\ nextBatch = 1
    /\ epoch = [k \in Keys |-> 0]
    /\ lastResp = [k \in Keys |-> NoResponse]
    /\ limiter = [p \in Procs |-> 0]
    /\ acquired = [p \in Procs |-> 0]
    /\ now = 0
    /\ gate = [g \in GateIds |-> IdleGate]
    /\ breaker = [k \in BreakerKeys |-> ClosedBreaker]
    /\ reply = NoReply
    /\ manager = JobManager(default_max_jobs)

InFlight(c) == call[c].pc \notin {"idle", "rejected", "returned", "raised"}

\* ------------------------------------------------- utils/csv_validator.py
\* An uploaded file: its name, whether it fits max_file_size_mb and decodes as
\* UTF-8, the header names (stripped, lower case), the number of data rows
\* with a name and an address, and the number of data rows lacking one.
max_csv_rows == 20

WellFormed(n) ==
    [filename |-> "hospitals.csv", fits |-> TRUE, utf8 |-> TRUE,
     headers |-> {"name", "address"}, valid_rows |-> n, invalid_rows |-> 0]

\* The files submitted: well formed ones of every length up to MaxItems, an
\* empty one, one above max_csv_rows, and files with one defect each.
Uploads ==
    {WellFormed(n) : n \in (0..MaxItems) \cup {max_csv_rows + 1}}
    \cup {[WellFormed(1) EXCEPT !.filename = "hospitals.txt"],
          [WellFormed(1) EXCEPT !.fits = FALSE],
          [WellFormed(1) EXCEPT !.utf8 = FALSE],
          [WellFormed(1) EXCEPT !.headers = {}],
          [WellFormed(1) EXCEPT !.headers = {"name"}],
          [WellFormed(1) EXCEPT !.headers = {"address"}],
          [WellFormed(1) EXCEPT !.invalid_rows = 1],
          [WellFormed(0) EXCEPT !.invalid_rows = 1]}

\* CSVValidator.validate_and_parse_csv: the detail of the HTTPException(400)
\* it raises, None when it returns the parsed rows (file.valid_rows of them).
ValidateAndParseCsv(file) ==
    IF file.filename # "hospitals.csv" THEN "File must be a CSV file"
    ELSE IF ~file.fits THEN "File size exceeds limit"
    ELSE IF ~file.utf8 THEN "File must be UTF-8 encoded"
    ELSE IF file.headers = {} THEN "CSV file is empty or has no headers"
    ELSE IF "name" \notin file.headers THEN "Missing required column: 'name'"
    ELSE IF "address" \notin file.headers THEN "Missing required column: 'address'"
    ELSE IF file.valid_rows > max_csv_rows THEN "CSV exceeds maximum allowed rows"
    ELSE IF file.valid_rows = 0 /\ file.invalid_rows = 0
    THEN "CSV file contains no valid data rows"
    ELSE IF file.invalid_rows > 0 THEN "CSV validation failed"
    ELSE None

\* ----------------------------------------- api/v1/endpoints/hospitals.py
\* str.strip() on the Idempotency-Key header, whose value is a usable key, the
\* empty text or white space.
Strip(text) == IF text = " " THEN "" ELSE text

KeyRequired == "Idempotency-Key header is required"

\* The requests made: every file under a usable key, and a well formed file
\* under a blank key.
Requests ==
    (Keys \X Uploads) \cup ({"", " "} \X {WellFormed(1)})

\* raise HTTPException(status_code=400, detail=...) before the service is
\* entered.
\* (Variant: the job record is created before the input is validated.)
SubmitRejectAfterCreate(c, detail) ==
    /\ call[c].pc = "idle"
    /\ \A d \in CallIds : d < c => call[d].pc # "idle"
    /\ nextJob \in JobIds
    /\ jobs' = [jobs EXCEPT ![nextJob] = RepoCreate(0)]
    /\ nextJob' = nextJob + 1
    /\ call' = [call EXCEPT ![c] = [IdleCall EXCEPT !.pc = "rejected",
                                                    !.failure = detail]]
    /\ UNCHANGED resVars
    /\ UNCHANGED <<cache, queue, run, nextBatch, epoch, lastResp>>

SubmitReject(c, detail) ==
    /\ call[c].pc = "idle"
    /\ \A d \in CallIds : d < c => call[d].pc # "idle"
    /\ call' = [call EXCEPT ![c] = [IdleCall EXCEPT !.pc = "rejected",
                                                    !.failure = detail]]
    /\ UNCHANGED resVars
    /\ UNCHANGED <<cache, jobs, nextJob, queue, run, nextBatch, epoch, lastResp>>

\* ------------------------------------- services/job_service.py: submission
\* The endpoint hands a validated item list (n hospitals) and a key to
\* JobService.submit_bulk_job.
SubmitStart(c, k, n) ==
    /\ call[c].pc = "idle"
    /\ \A d \in CallIds : d < c => call[d].pc # "idle"
    /\ c = 1 => k = "k1"    \* keys are interchangeable: the first one used is k1
    /\ LET others == {d \in CallIds : InFlight(d) /\ call[d].key = k}
       IN call' = [d \in CallIds |->
                     IF d = c
                     THEN [IdleCall EXCEPT !.pc = "get", !.key = k, !.n = n,
                                           !.prior = lastResp[k],
                                           !.priorStored =
                                               (lastResp[k] # NoResponse
                                                /\ cache[k] = JsonDumps(lastResp[k])),
                                           !.overlap = (others # {}),
                                           !.epoch = epoch[k]]
                     ELSE IF d \in others THEN [call[d] EXCEPT !.overlap = TRUE]
                     ELSE call[d]]
    /\ UNCHANGED resVars
    /\ UNCHANGED <<cache, jobs, nextJob, queue, run, nextBatch, epoch, lastResp>>

\* bulk_create_hospitals: the key check, the CSV validation, then the service.
BulkCreateHospitals(c, idempotency_key, file) ==
    IF Strip(idempotency_key) = "" THEN SubmitReject(c, KeyRequired)
    ELSE IF ValidateAndParseCsv(file) # None
    THEN SubmitReject(c, ValidateAndParseCsv(file))
    ELSE SubmitStart(c, idempotency_key, file.valid_rows)

\* cached_response = idempotency_store.get(key); if cached_response: return it
\* (Variant: an entry made for another item count is taken as a miss.)
SubmitGetChecksPayload(c, reachable) ==
    /\ call[c].pc = "get"
    /\ LET cached == IdempotencyGet(cache, call[c].key, reachable)
       IN IF cached # <<>> /\ JsonLoads(cached).total_hospitals = call[c].n
          THEN /\ call' = [call EXCEPT ![c].pc = "returned",
                                       ![c].resp = JsonLoads(cached)]
               /\ lastResp' = IF call[c].expired THEN lastResp
                              ELSE [lastResp EXCEPT ![call[c].key] = JsonLoads(cached)]
          ELSE /\ call' = [call EXCEPT ![c].pc = "create",
                                       ![c].storeFailed = ~reachable]
               /\ UNCHANGED lastResp
    /\ UNCHANGED resVars
    /\ UNCHANGED <<cache, jobs, nextJob, queue, run, nextBatch, epoch>>

\* (Variant: the store fails closed, a RedisError of get reaches the caller.)
SubmitGetFailsClosed(c, reachable) ==
    /\ call[c].pc = "get"
    /\ LET cached == IdempotencyGet(cache, call[c].key, reachable)
       IN IF ~reachable
          THEN /\ call' = [call EXCEPT ![c].pc = "raised",
                                       ![c].storeFailed = TRUE]
               /\ UNCHANGED lastResp
          ELSE IF cached # <<>>
          THEN /\ call' = [call EXCEPT ![c].pc = "returned",
                                       ![c].resp = JsonLoads(cached)]
               /\ lastResp' = IF call[c].expired THEN lastResp
                              ELSE [lastResp EXCEPT ![call[c].key] = JsonLoads(cached)]
          ELSE /\ call' = [call EXCEPT ![c].pc = "create"]
               /\ UNCHANGED lastResp
    /\ UNCHANGED resVars
    /\ UNCHANGED <<cache, jobs, nextJob, queue, run, nextBatch, epoch>>

SubmitGet(c, reachable) ==
    /\ call[c].pc = "get"
    /\ LET cached == IdempotencyGet(cache, call[c].key, reachable)
       IN IF cached # <<>>
          THEN /\ call' = [call EXCEPT ![c].pc = "returned",
                                       ![c].resp = JsonLoads(cached)]
               /\ lastResp' = IF call[c].expired THEN lastResp
                              ELSE [lastResp EXCEPT ![call[c].key] = JsonLoads(cached)]
          ELSE /\ call' = [call EXCEPT ![c].pc = "create",
                                       ![c].storeFailed = ~reachable]
               /\ UNCHANGED lastResp
    /\ UNCHANGED resVars
    /\ UNCHANGED <<cache, jobs, nextJob, queue, run, nextBatch, epoch>>

\* job = job_repository.create(total_hospitals=len(hospitals))
SubmitCreate(c) ==
    /\ call[c].pc = "create"
    /\ nextJob \in JobIds
    /\ jobs' = [jobs EXCEPT ![nextJob] = RepoCreate(call[c].n)]
    /\ call' = [call EXCEPT ![c].pc = "dispatch", ![c].job = nextJob]
    /\ nextJob' = nextJob + 1
    /\ UNCHANGED resVars
    /\ UNCHANGED <<cache, queue, run, nextBatch, epoch, lastResp>>

\* process_bulk_hospitals_task.delay(job.job_id, hospitals_data), which
\* publishes the message, raises OperationalError or raises something else.
DispatchOutcomes == {"ok", "operational_error", "exception"}

DispatchError(outcome) ==
    IF outcome = "operational_error" THEN "Message queue unavailable"
    ELSE "Failed to queue job: exception"

\* (Variant: a failed dispatch leaves an idempotency entry for the key.)
SubmitDispatchCachesFailure(c, outcome) ==
    /\ call[c].pc = "dispatch"
    /\ IF outcome = "ok"
       THEN /\ queue' = queue \cup {[job |-> call[c].job, n |-> call[c].n]}
            /\ call' = [call EXCEPT ![c].pc = "respond", ![c].dispatched = TRUE]
            /\ UNCHANGED cache
       ELSE /\ call' = [call EXCEPT ![c].pc = "fail_status",
                                    ![c].failure = DispatchError(outcome)]
            /\ cache' = IdempotencySet(cache, call[c].key,
                                       JobSubmitResponse(call[c].job, FAILED,
                                                         DispatchError(outcome),
                                                         call[c].n), TRUE)
            /\ UNCHANGED queue
    /\ UNCHANGED resVars
    /\ UNCHANGED <<jobs, nextJob, run, nextBatch, epoch, lastResp>>

SubmitDispatch(c, outcome) ==
    /\ call[c].pc = "dispatch"
    /\ IF outcome = "ok"
       THEN /\ queue' = queue \cup {[job |-> call[c].job, n |-> call[c].n]}
            /\ call' = [call EXCEPT ![c].pc = "respond", ![c].dispatched = TRUE]
       ELSE /\ call' = [call EXCEPT ![c].pc = "fail_status",
                                    ![c].failure = DispatchError(outcome)]
            /\ UNCHANGED queue
    /\ UNCHANGED resVars
    /\ UNCHANGED <<cache, jobs, nextJob, run, nextBatch, epoch, lastResp>>

\* except branch: job_repository.update_status(job.job_id, JobStatus.FAILED)
SubmitFailStatus(c) ==
    /\ call[c].pc = "fail_status"
    /\ jobs' = [jobs EXCEPT ![call[c].job] = RepoUpdateStatus(@, FAILED)]
    /\ call' = [call EXCEPT ![c].pc = "fail_error"]
    /\ UNCHANGED resVars
    /\ UNCHANGED <<cache, nextJob, queue, run, nextBatch, epoch, lastResp>>

\* except branch: job_repository.set_error(job.job_id, ...); raise HTTPException
SubmitFailError(c) ==
    /\ call[c].pc = "fail_error"
    /\ jobs' = [jobs EXCEPT ![call[c].job] = RepoSetError(@, call[c].failure)]
    /\ call' = [call EXCEPT ![c].pc = "raised"]
    /\ UNCHANGED resVars
    /\ UNCHANGED <<cache, nextJob, queue, run, nextBatch, epoch, lastResp>>

\* response = JobSubmitResponse(...); idempotency_store.set(key, dump); return
SubmitRespond(c, reachable) ==
    /\ call[c].pc = "respond"
    /\ LET response == JobSubmitResponse(call[c].job, PENDING, AcceptedMessage,
                                         call[c].n)
       IN /\ cache' = IdempotencySet(cache, call[c].key, response, reachable)
          /\ call' = [call EXCEPT ![c].pc = "returned", ![c].resp = response,
                                  ![c].storeFailed = (@ \/ ~reachable)]
          /\ lastResp' = IF call[c].expired THEN lastResp
                         ELSE [lastResp EXCEPT ![call[c].key] = response]
    /\ UNCHANGED resVars
    /\ UNCHANGED <<jobs, nextJob, queue, run, nextBatch, epoch>>

\* Redis drops the entry of key k when its TTL (setex) has elapsed.
\* (Variant: the TTL elapses but the entry stays readable.)
ExpireKeepsEntry(k) ==
    /\ cache[k] # <<>>
    /\ epoch[k] < MaxExpire
    /\ epoch' = [epoch EXCEPT ![k] = @ + 1]
    /\ lastResp' = [lastResp EXCEPT ![k] = NoResponse]
    /\ call' = [d \in CallIds |->
                  IF InFlight(d) /\ call[d].key = k
                  THEN [call[d] EXCEPT !.expired = TRUE, !.prior = NoResponse,
                                       !.priorStored = FALSE]
                  ELSE call[d]]
    /\ UNCHANGED resVars
    /\ UNCHANGED <<cache, jobs, nextJob, queue, run, nextBatch>>

Expire(k) ==
    /\ cache[k] # <<>>
    /\ epoch[k] < MaxExpire
    /\ cache' = [cache EXCEPT ![k] = <<>>]
    /\ epoch' = [epoch EXCEPT ![k] = @ + 1]
    /\ lastResp' = [lastResp EXCEPT ![k] = NoResponse]
    /\ call' = [d \in CallIds |->
                  IF InFlight(d) /\ call[d].key = k
                  THEN [call[d] EXCEPT !.expired = TRUE, !.prior = NoResponse,
                                       !.priorStored = FALSE]
                  ELSE call[d]]
    /\ UNCHANGED resVars
    /\ UNCHANGED <<jobs, nextJob, queue, run, nextBatch>>

\* ------------------------------------------- tasks/tasks.py: orchestrator
\* The broker hands a unit of work to a worker. Delivery is at-least-once:
\* the message is either acknowledged (removed) or stays to be delivered again.
Deliver(r, m, redeliver) ==
    /\ run[r].pc = "idle"
    /\ \A q \in RunIds : q < r => run[q].pc # "idle"
    /\ m \in queue
    /\ run' = [run EXCEPT ![r] = [IdleRun EXCEPT !.pc = "start", !.job = m.job,
                                                 !.n = m.n]]
    /\ queue' = IF redeliver THEN queue ELSE queue \ {m}
    /\ UNCHANGED resVars
    /\ UNCHANGED <<call, cache, jobs, nextJob, nextBatch, epoch, lastResp>>

\* Row numbers of the parsed CSV: the header is row 1, item i is row i + 1.
RowNumber(i) == i + 1

PendingResults(n) ==
    [i \in 1..n |-> HospitalProcessingResult(RowNumber(i), 0, "pending", None)]

\* job_repository.update_status(job_id, PROCESSING); batch_id = uuid4()
\* (Variant: the batch id is derived from the job id instead of minted.)
RunStartReusesBatch(r) ==
    /\ run[r].pc = "start"
    /\ jobs' = [jobs EXCEPT ![run[r].job] = RepoUpdateStatus(@, PROCESSING)]
    /\ run' = [run EXCEPT ![r].pc = "create", ![r].batch_id = run[r].job,
                          ![r].results = PendingResults(run[r].n),
                          ![r].terminalAtStart =
                              (jobs[run[r].job].status \in Terminal)]
    /\ nextBatch' = nextBatch + 1
    /\ UNCHANGED resVars
    /\ UNCHANGED <<call, cache, nextJob, queue, epoch, lastResp>>

RunStart(r) ==
    /\ run[r].pc = "start"
    /\ jobs' = [jobs EXCEPT ![run[r].job] = RepoUpdateStatus(@, PROCESSING)]
    /\ run' = [run EXCEPT ![r].pc = "create", ![r].batch_id = nextBatch,
                          ![r].results = PendingResults(run[r].n),
                          ![r].terminalAtStart =
                              (jobs[run[r].job].status \in Terminal)]
    /\ nextBatch' = nextBatch + 1
    /\ UNCHANGED resVars
    /\ UNCHANGED <<call, cache, nextJob, queue, epoch, lastResp>>

\* _create_single_hospital: api_client.create_hospital returns a hospital,
\* returns (None, error) or raises; the exception is caught per item.
CreateOutcomes == {"created", "rejected", "raised"}

CreateSingleHospital(i, outcome) ==
    IF outcome = "created"
    THEN HospitalProcessingResult(RowNumber(i), i, "created", None)
    ELSE IF outcome = "rejected"
    THEN HospitalProcessingResult(RowNumber(i), 0, "failed", "API returned status")
    ELSE HospitalProcessingResult(RowNumber(i), 0, "failed", "Unexpected error")

\* (Variant: no try/except around the item's create call; the exception leaves
\* asyncio.gather(return_exceptions=False) and reaches the outer handler.)
CreateItemAborts(r, i, outcome) ==
    /\ run[r].pc = "create"
    /\ i \in 1..run[r].n
    /\ run[r].results[i].status = "pending"
    /\ IF outcome = "raised"
       THEN /\ run' = [run EXCEPT ![r].pc = "raised",
                                  ![r].error = "Error processing hospitals: exception",
                                  ![r].remote_ops = @ \cup {"create_hospital"},
                                  ![r].batch_ids_sent = @ \cup {run[r].batch_id}]
            /\ jobs' = [jobs EXCEPT ![run[r].job] =
                           RepoSetError(@, "Error processing hospitals: exception")]
       ELSE /\ run' = [run EXCEPT ![r].results[i] = CreateSingleHospital(i, outcome),
                                  ![r].remote_ops = @ \cup {"create_hospital"},
                                  ![r].batch_ids_sent = @ \cup {run[r].batch_id}]
            /\ UNCHANGED jobs
    /\ UNCHANGED resVars
    /\ UNCHANGED <<call, cache, nextJob, queue, nextBatch, epoch, lastResp>>

CreateItem(r, i, outcome) ==
    /\ run[r].pc = "create"
    /\ i \in 1..run[r].n
    /\ run[r].results[i].status = "pending"
    /\ run' = [run EXCEPT ![r].results[i] = CreateSingleHospital(i, outcome),
                          ![r].remote_ops = @ \cup {"create_hospital"},
                          ![r].batch_ids_sent = @ \cup {run[r].batch_id}]
    /\ UNCHANGED resVars
    /\ UNCHANGED <<call, cache, jobs, nextJob, queue, nextBatch, epoch, lastResp>>

\* asyncio.gather returns once every item task has finished.
Gathered(r) ==
    /\ run[r].pc = "create"
    /\ \A i \in 1..run[r].n : run[r].results[i].status # "pending"

FailedCount(results) ==
    Cardinality({i \in DOMAIN results : results[i].status = "failed"})

SuccessCount(results) == Len(results) - FailedCount(results)

\* if failed_count == 0: try to auto-activate
\* (Variant: activation is attempted whatever the failure count.)
ShouldActivateAlways(failed_count) == TRUE

ShouldActivate(failed_count) == failed_count = 0

\* api_client.activate_batch returns (True, None), returns (False, error) or
\* raises (circuit breaker open); on success every result is upgraded.
ActivateOutcomes == {"success", "failure", "raised"}

\* (Variant: a successful activation leaves the item results as they are.)
ApplyActivationNoUpgrade(results, outcome) == results

\* (Variant: an activation that did not succeed is noted on every result.)
ApplyActivationNotesFailure(results, outcome) ==
    IF outcome = "success"
    THEN [i \in DOMAIN results |->
            [results[i] EXCEPT !.status = "created_and_activated"]]
    ELSE [i \in DOMAIN results |->
            [results[i] EXCEPT !.error_message = "Activation failed"]]

\* (Variant: the results are upgraded whatever activate_batch answered.)
ApplyActivationAlways(results, outcome) ==
    [i \in DOMAIN results |->
        [results[i] EXCEPT !.status = "created_and_activated"]]

ApplyActivation(results, outcome) ==
    IF outcome = "success"
    THEN [i \in DOMAIN results |->
            [results[i] EXCEPT !.status = "created_and_activated"]]
    ELSE results

\* Client operations the activation decision issues: activate_batch when no
\* item failed, nothing otherwise (the else branch only logs).
\* (Variant: the earlier orchestrator, which deletes the batch when an item
\* failed or activation did not succeed.)
DecisionOpsRollback(failed_count, outcome) ==
    IF failed_count = 0
    THEN IF outcome = "success" THEN {"activate_batch"}
         ELSE {"activate_batch", "delete_batch"}
    ELSE {"delete_batch"}

DecisionOps(failed_count, outcome) ==
    IF failed_count = 0 THEN {"activate_batch"} ELSE {}

BuildResponse(batch_id, n, results, batch_activated) ==
    BulkCreateResponse(batch_id, n, SuccessCount(results), FailedCount(results),
                       batch_activated, results)

RunActivate(r, outcome) ==
    /\ Gathered(r)
    /\ ShouldActivate(FailedCount(run[r].results))
    /\ LET results == ApplyActivation(run[r].results, outcome)
           batch_activated == (outcome = "success")
       IN run' = [run EXCEPT ![r].pc = "set_result",
                             ![r].activation = outcome,
                             ![r].activate_calls = @ + 1,
                             ![r].remote_ops = @ \cup DecisionOps(0, outcome),
                             ![r].batch_ids_sent = @ \cup {run[r].batch_id},
                             ![r].results = results,
                             ![r].batch_activated = batch_activated,
                             ![r].response =
                                 BuildResponse(run[r].batch_id, run[r].n, results,
                                               batch_activated)]
    /\ UNCHANGED resVars
    /\ UNCHANGED <<call, cache, jobs, nextJob, queue, nextBatch, epoch, lastResp>>

RunSkipActivate(r) ==
    /\ Gathered(r)
    /\ ~ShouldActivate(FailedCount(run[r].results))
    /\ run' = [run EXCEPT ![r].pc = "set_result",
                          ![r].remote_ops =
                              @ \cup DecisionOps(FailedCount(run[r].results), None),
                          ![r].response =
                              BuildResponse(run[r].batch_id, run[r].n,
                                            run[r].results, FALSE)]
    /\ UNCHANGED resVars
    /\ UNCHANGED <<call, cache, jobs, nextJob, queue, nextBatch, epoch, lastResp>>

\* job_repository.set_result(job_id, bulk_response)
RunSetResult(r) ==
    /\ run[r].pc = "set_result"
    /\ jobs' = [jobs EXCEPT ![run[r].job] = RepoSetResult(@, run[r].response)]
    /\ run' = [run EXCEPT ![r].pc = "set_status"]
    /\ UNCHANGED resVars
    /\ UNCHANGED <<call, cache, nextJob, queue, nextBatch, epoch, lastResp>>

\* job_repository.update_status(job_id, COMPLETED)
\* (Variant: the run ends without writing the final status.)
RunSetCompletedSkipsStore(r) ==
    /\ run[r].pc = "set_status"
    /\ run' = [run EXCEPT ![r].pc = "done"]
    /\ UNCHANGED resVars
    /\ UNCHANGED <<call, cache, jobs, nextJob, queue, nextBatch, epoch, lastResp>>

RunSetCompleted(r) ==
    /\ run[r].pc = "set_status"
    /\ jobs' = [jobs EXCEPT ![run[r].job] = RepoUpdateStatus(@, COMPLETED)]
    /\ run' = [run EXCEPT ![r].pc = "done"]
    /\ UNCHANGED resVars
    /\ UNCHANGED <<call, cache, nextJob, queue, nextBatch, epoch, lastResp>>

\* A job store call inside the try block raises (session_scope re-raises the
\* database error after rollback); the except branch stores the error text
\* with job_repository.set_error(job_id, error_msg) and re-raises.
ProcessingError == "Error processing hospitals: exception"

RunStoreFault(r) ==
    /\ run[r].pc \in {"start", "set_result", "set_status"}
    /\ jobs' = [jobs EXCEPT ![run[r].job] = RepoSetError(@, ProcessingError)]
    /\ run' = [run EXCEPT ![r].pc = "raised", ![r].error = ProcessingError]
    /\ UNCHANGED resVars
    /\ UNCHANGED <<call, cache, nextJob, queue, nextBatch, epoch, lastResp>>

\* ------------------------------------ services/job_service.py: status query
JobNotFound == [detail |-> "Job not found"]

StatusMessage(jm) ==
    IF jm.status = PENDING THEN "Job is pending, waiting to start processing"
    ELSE IF jm.status = PROCESSING THEN "Processing hospitals"
    ELSE IF jm.status = COMPLETED
    THEN IF jm.failed_hospitals > 0 THEN "Processing completed with failures"
         ELSE "All hospitals processed successfully"
    ELSE IF jm.status = FAILED THEN "Job failed"
    ELSE "Unknown status"

JobStatusResponse(job_id, jm) ==
    [job_id |-> job_id, status |-> jm.status,
     total_hospitals |-> jm.total_hospitals,
     processed_hospitals |-> jm.processed_hospitals,
     failed_hospitals |-> jm.failed_hospitals,
     progress_percentage |-> ProgressPercentage(jm),
     message |-> StatusMessage(jm),
     started_at |-> jm.started_at, completed_at |-> jm.completed_at,
     result |-> jm.result, error |-> jm.error]

\* JobService.get_job_status: job_repository.get, then the response.
\* (Variant: an unknown id is answered as a job that is pending.)
GetJobStatusNeverMisses(store, job_id) ==
    IF store[job_id].status = "absent"
    THEN JobStatusResponse(job_id, RepoCreate(0))
    ELSE JobStatusResponse(job_id, store[job_id])

GetJobStatus(store, job_id) ==
    IF store[job_id].status = "absent" THEN JobNotFound
    ELSE JobStatusResponse(job_id, store[job_id])

\* GET /status/{job_id}: 404 for JobNotFoundException, the response otherwise.
StatusQuery(job_id) ==
    /\ LET status == GetJobStatus(jobs, job_id)
       IN reply' = [endpoint |-> "status", arg |-> job_id,
                    code |-> IF status = JobNotFound THEN 404 ELSE 200,
                    ops |-> <<>>, body |-> status]
    /\ UNCHANGED <<limVars, gateVars, legacyVars>>
    /\ UNCHANGED <<call, cache, jobs, nextJob, queue, run, nextBatch, epoch, lastResp>>

\* ------------------------- api/v1/endpoints/hospitals.py: manual activation
\* Batch ids a caller may name: those the orchestrator has generated and one
\* that it has not.
BatchIds == 1..(MaxRuns + 1)

BatchActivateResponse(batch_id, activated, message, error_message) ==
    [batch_id |-> batch_id, activated |-> activated, message |-> message,
     error_message |-> error_message]

\* What PATCH /batch/{batch_id}/activate answers after its one call of
\* HospitalAPIClient().activate_batch(batch_id).
ActivateReply(batch_id, outcome) ==
    [endpoint |-> "activate", arg |-> batch_id,
     code |-> IF outcome = "raised" THEN 500 ELSE 200,
     ops |-> <<"activate_batch">>,
     body |-> IF outcome = "success"
              THEN BatchActivateResponse(batch_id, TRUE,
                                         "Batch activated successfully", None)
              ELSE IF outcome = "failure"
              THEN BatchActivateResponse(batch_id, FALSE,
                                         "Batch activation failed",
                                         "API returned status")
              ELSE [detail |-> "Internal server error"]]

\* (Variant: a successful manual activation is written back to the job whose
\* result names the batch.)
ManualActivateUpdatesJob(batch_id, outcome) ==
    /\ reply' = ActivateReply(batch_id, outcome)
    /\ jobs' = [j \in JobIds |->
                  IF outcome = "success" /\ jobs[j].result.batch_id = batch_id
                  THEN [jobs[j] EXCEPT !.result.batch_activated = TRUE]
                  ELSE jobs[j]]
    /\ UNCHANGED <<limVars, gateVars, legacyVars>>
    /\ UNCHANGED <<call, cache, nextJob, queue, run, nextBatch, epoch, lastResp>>

ManualActivate(batch_id, outcome) ==
    /\ reply' = ActivateReply(batch_id, outcome)
    /\ UNCHANGED <<limVars, gateVars, legacyVars>>
    /\ UNCHANGED <<call, cache, jobs, nextJob, queue, run, nextBatch, epoch, lastResp>>

\* --------------------------------- app_old/job_manager.py: JobManager calls
\* Everything the manager's methods leave alone.
UnchangedByManager ==
    /\ UNCHANGED <<limVars, gateVars, apiVars>>
    /\ UNCHANGED <<call, cache, jobs, nextJob, queue, run, nextBatch, epoch, lastResp>>

\* manager = JobManager(max_jobs=...), before any job is created.
NewJobManager(max_jobs) ==
    /\ ~manager.made /\ manager.next = 1
    /\ manager' = [JobManager(max_jobs) EXCEPT !.made = TRUE]
    /\ UnchangedByManager

\* JobManager.create_job: the new job is stored, then _cleanup_old_jobs runs.
CreateJob(job_id, total_hospitals) ==
    /\ job_id = manager.next
    /\ manager' = [manager EXCEPT
                      !.jobs = CleanupOldJobs(
                                   [manager.jobs EXCEPT ![job_id] = Job(total_hospitals)],
                                   manager.max_jobs),
                      !.next = @ + 1]
    /\ UnchangedByManager

\* JobManager.update_job_status
UpdateJobStatus(job_id, status) ==
    /\ manager.jobs[job_id].present
    /\ status \in Terminal => manager.clock < MaxStamps
    /\ manager' = IF status \in Terminal
                  THEN [manager EXCEPT !.jobs[job_id].status = status,
                                       !.jobs[job_id].completed_at = manager.clock + 1,
                                       !.clock = @ + 1]
                  ELSE [manager EXCEPT !.jobs[job_id].status = status]
    /\ UnchangedByManager

\* JobManager.update_job_progress
UpdateJobProgress(job_id, hospital_name, success) ==
    /\ manager.jobs[job_id].present
    /\ Len(manager.jobs[job_id].log) < MaxUpdates
    /\ manager' = [manager EXCEPT
                      !.jobs[job_id] =
                          UpdateProgress(@, hospital_name, success,
                                         Len(manager.jobs[job_id].log) + 1)]
    /\ UnchangedByManager

\* ------------------------------------------ core/resilience.py: RateLimiter
\* rate_limiter = RateLimiter() is a module global: every process that imports
\* the module builds its own AsyncLimiter(max_rate, time_period), an in-process
\* leaky bucket. The bucket starts empty, acquire() adds one unit when
\* level + 1 <= max_rate and otherwise waits, and the level drains at
\* max_rate / time_period. The clock counts drip intervals, so one time_period
\* is max_rate ticks and one tick drains one unit.
rate_limit_requests == 10

PeriodTicks == rate_limit_requests

LimiterLeak(level, ticks) == IF level > ticks THEN level - ticks ELSE 0

LimiterHasCapacity(level) == level + 1 <= rate_limit_requests

\* await rate_limiter.acquire() returns in process p: it is never rejected,
\* it waits until the bucket has capacity.
LimiterAcquire(p) ==
    /\ acquired[p] < MaxAcquires
    /\ LimiterHasCapacity(limiter[p])
    /\ limiter' = [limiter EXCEPT ![p] = @ + 1]
    /\ acquired' = [acquired EXCEPT ![p] = @ + 1]
    /\ UNCHANGED <<now, gateVars, apiVars, legacyVars>>
    /\ UNCHANGED <<call, cache, jobs, nextJob, queue, run, nextBatch, epoch, lastResp>>

\* One drip interval passes: every bucket drains by one unit.
Tick ==
    /\ now < MaxTicks
    /\ now' = now + 1
    /\ limiter' = [p \in Procs |-> LimiterLeak(limiter[p], 1)]
    /\ UNCHANGED <<acquired, gateVars, apiVars, legacyVars>>
    /\ UNCHANGED <<call, cache, jobs, nextJob, queue, run, nextBatch, epoch, lastResp>>

\* ------------------- external/hospital_api_client.py + core/resilience.py
\* Every client method is decorated, outermost first, by the circuit breaker
\* and by tenacity's retry; its body starts with rate_limiter.acquire() and
\* then makes the HTTP request. The breaker is consulted once per call, the
\* body runs once per attempt.
ClientOps == {"create_hospital", "activate_batch", "delete_batch"}

\* The orchestrator runs in the workers; the API process serves the manual
\* activation endpoint.
OpsOf(p) == IF p = "api" THEN {"activate_batch"} ELSE ClientOps

circuit_breaker_failure_threshold == 5

retry_max_attempts == 3

\* (Variant: each process keeps its breaker state in its own memory.)
StorageKeyPerProcess(p, op) == p

\* The three methods share the one breaker object and its Redis storage.
StorageKey(p, op) == BreakerName

\* (Variant: the breaker admits a call whatever its state.)
BeforeCallAdmitsAlways(state, elapsed) == TRUE

\* CircuitBreaker.call_async: a CLOSED or HALF_OPEN breaker admits the call,
\* an OPEN one admits it only once reset_timeout has elapsed.
BeforeCallAdmits(state, elapsed) == state # "open" \/ elapsed

\* (Variant: the stop condition is off by one.)
ShouldStopLate(attempt_number) == attempt_number > retry_max_attempts

\* stop=stop_after_attempt(settings.retry_max_attempts)
ShouldStop(attempt_number) == attempt_number >= retry_max_attempts

\* (Variant: a call that returns leaves the failure counter as it is.)
OnSuccessKeepsCounter(b, admitted) ==
    IF admitted = "half_open" THEN [ClosedBreaker EXCEPT !.fail_counter = b.fail_counter]
    ELSE b

\* The call returned (a tuple, also for a non-2xx answer): the failure counter
\* is reset, and a call admitted as a trial closes the breaker.
OnSuccess(b, admitted) ==
    IF admitted = "half_open" THEN ClosedBreaker
    ELSE [b EXCEPT !.fail_counter = 0]

\* The call raised: the failure is counted; a trial call, or a call that
\* brings the counter to fail_max, opens the breaker (and restarts the
\* timeout).
\* (Variant: the breaker opens one failure late.)
TripsLate(b, admitted) ==
    admitted = "half_open"
        \/ b.fail_counter + 1 > circuit_breaker_failure_threshold

Trips(b, admitted) ==
    admitted = "half_open"
        \/ b.fail_counter + 1 >= circuit_breaker_failure_threshold

OnFailure(b, admitted, p) ==
    IF Trips(b, admitted)
    THEN [state |-> "open", fail_counter |-> b.fail_counter + 1,
          elapsed |-> FALSE, opened_by |-> p]
    ELSE [b EXCEPT !.fail_counter = @ + 1]

\* A process calls a client method.
GateCall(g, p, op) ==
    /\ gate[g].pc = "idle"
    /\ op \in OpsOf(p)
    /\ gate' = [gate EXCEPT ![g] = [IdleGate EXCEPT !.pc = "breaker", !.op = op,
                                                    !.proc = p]]
    /\ UNCHANGED <<breaker, limVars, apiVars, legacyVars>>
    /\ UNCHANGED <<call, cache, jobs, nextJob, queue, run, nextBatch, epoch, lastResp>>

\* breaker.call_async(func, ...): an OPEN breaker whose timeout has not elapsed
\* raises CircuitBreakerError at once; after the timeout the call moves the
\* breaker to HALF_OPEN and goes on as a trial; otherwise the call goes on.
GateBeforeCall(g) ==
    /\ gate[g].pc = "breaker"
    /\ LET k == StorageKey(gate[g].proc, gate[g].op)
           b == breaker[k]
       IN IF BeforeCallAdmits(b.state, b.elapsed)
          THEN /\ gate' = [gate EXCEPT ![g].pc = "acquire",
                                       ![g].admitted =
                                           IF b.state = "closed" THEN "closed"
                                           ELSE "half_open"]
               /\ breaker' = IF b.state = "open"
                             THEN [breaker EXCEPT ![k].state = "half_open"]
                             ELSE breaker
          ELSE /\ gate' = [gate EXCEPT ![g].pc = "raised",
                                       ![g].error = "CircuitBreakerError"]
               /\ UNCHANGED breaker
    /\ UNCHANGED <<limVars, apiVars, legacyVars>>
    /\ UNCHANGED <<call, cache, jobs, nextJob, queue, run, nextBatch, epoch, lastResp>>

\* await rate_limiter.acquire() returns and the request is sent (the level of
\* the bucket is followed in the rate-limiter runs).
GateAcquire(g) ==
    /\ gate[g].pc = "acquire"
    /\ gate' = [gate EXCEPT ![g].pc = "http", ![g].acquires = @ + 1]
    /\ UNCHANGED <<breaker, limVars, apiVars, legacyVars>>
    /\ UNCHANGED <<call, cache, jobs, nextJob, queue, run, nextBatch, epoch, lastResp>>

\* The request ends with a 2xx answer, another answer, a timeout or a request
\* error. create_hospital returns a tuple for an answer and raises
\* ExternalAPIException otherwise; activate_batch and delete_batch catch every
\* exception and return (False, message).
HttpOutcomes == {"2xx", "non_2xx", "timeout", "request_error"}

\* (Variant: a non-2xx answer raises, as response.raise_for_status() would.)
RaisesOnStatus(op, outcome) ==
    op = "create_hospital" /\ outcome \in {"non_2xx", "timeout", "request_error"}

Raises(op, outcome) ==
    op = "create_hospital" /\ outcome \in {"timeout", "request_error"}

Answer(outcome) ==
    IF outcome \in {"timeout", "request_error"} THEN "exception" ELSE outcome

GateHttp(g, outcome) ==
    /\ gate[g].pc = "http"
    /\ LET c == gate[g]
           k == StorageKey(c.proc, c.op)
           attempt_number == c.attempts + 1
       IN IF ~Raises(c.op, outcome)
          THEN /\ gate' = [gate EXCEPT ![g].pc = "returned",
                                       ![g].attempts = attempt_number,
                                       ![g].answer = Answer(outcome),
                                       ![g].result =
                                           IF outcome = "2xx" THEN "ok" ELSE "error"]
               /\ breaker' = [breaker EXCEPT ![k] = OnSuccess(@, c.admitted)]
          ELSE IF ~ShouldStop(attempt_number)
          THEN /\ gate' = [gate EXCEPT ![g].pc = "backoff",
                                       ![g].attempts = attempt_number,
                                       ![g].answer = Answer(outcome)]
               /\ UNCHANGED breaker
          ELSE /\ breaker[k].fail_counter < MaxFailCounter
               /\ gate' = [gate EXCEPT ![g].pc = "raised",
                                       ![g].attempts = attempt_number,
                                       ![g].answer = Answer(outcome),
                                       ![g].error =
                                           IF Trips(breaker[k], c.admitted)
                                           THEN "CircuitBreakerError"
                                           ELSE "ExternalAPIException"]
               /\ breaker' = [breaker EXCEPT ![k] = OnFailure(@, c.admitted, c.proc)]
    /\ UNCHANGED <<limVars, apiVars, legacyVars>>
    /\ UNCHANGED <<call, cache, jobs, nextJob, queue, run, nextBatch, epoch, lastResp>>

\* (Variant: only the first attempt of a call waits for the rate limiter.)
GateBackoffSkipsAcquire(g) ==
    /\ gate[g].pc = "backoff"
    /\ gate' = [gate EXCEPT ![g].pc = "http"]
    /\ UNCHANGED <<breaker, limVars, apiVars, legacyVars>>
    /\ UNCHANGED <<call, cache, jobs, nextJob, queue, run, nextBatch, epoch, lastResp>>

\* wait=wait_exponential(min, max): the sleep ends and the body runs again.
GateBackoff(g) ==
    /\ gate[g].pc = "backoff"
    /\ gate' = [gate EXCEPT ![g].pc = "acquire"]
    /\ UNCHANGED <<breaker, limVars, apiVars, legacyVars>>
    /\ UNCHANGED <<call, cache, jobs, nextJob, queue, run, nextBatch, epoch, lastResp>>

\* The caller has taken the result or the exception.
GateDone(g) ==
    /\ gate[g].pc \in {"returned", "raised"}
    /\ gate' = [gate EXCEPT ![g] = IdleGate]
    /\ UNCHANGED <<breaker, limVars, apiVars, legacyVars>>
    /\ UNCHANGED <<call, cache, jobs, nextJob, queue, run, nextBatch, epoch, lastResp>>

\* reset_timeout (circuit_breaker_recovery_timeout) passes after the opening.
BreakerTimeout(k) ==
    /\ breaker[k].state = "open"
    /\ ~breaker[k].elapsed
    /\ breaker' = [breaker EXCEPT ![k].elapsed = TRUE]
    /\ UNCHANGED <<gate, limVars, apiVars, legacyVars>>
    /\ UNCHANGED <<call, cache, jobs, nextJob, queue, run, nextBatch, epoch, lastResp>>

\* What _create_single_hospital sees of a finished create_hospital call.
ClientOutcome(c) ==
    IF c.pc = "raised" THEN "raised"
    ELSE IF c.result = "ok" THEN "created"
    ELSE "rejected"

GateStep(g) ==
    \/ \E p \in Procs, op \in ClientOps : GateCall(g, p, op)
    \/ GateBeforeCall(g)
    \/ GateAcquire(g)
    \/ \E outcome \in HttpOutcomes : GateHttp(g, outcome)
    \/ GateBackoff(g)
    \/ GateDone(g)

SubmitStep(c) ==
    \/ \E req \in Requests : BulkCreateHospitals(c, req[1], req[2])
    \/ \E reachable \in BOOLEAN : SubmitGet(c, reachable)
    \/ SubmitCreate(c)
    \/ \E outcome \in DispatchOutcomes : SubmitDispatch(c, outcome)
    \/ SubmitFailStatus(c)
    \/ SubmitFailError(c)
    \/ \E reachable \in BOOLEAN : SubmitRespond(c, reachable)

RunStep(r) ==
    \/ \E m \in queue, redeliver \in BOOLEAN : Deliver(r, m, redeliver)
    \/ RunStart(r)
    \/ \E i \in 1..MaxItems, outcome \in CreateOutcomes : CreateItem(r, i, outcome)
    \/ \E outcome \in ActivateOutcomes : RunActivate(r, outcome)
    \/ RunSkipActivate(r)
    \/ RunSetResult(r)
    \/ RunSetCompleted(r)
    \/ RunStoreFault(r)

\* Orchestrator-centred: OrchCalls submissions, MaxRuns deliveries.
Next ==
    \/ \E c \in 1..OrchCalls : SubmitStep(c)
    \/ \E k \in Keys : Expire(k)
    \/ \E r \in RunIds : RunStep(r)

Spec == Init /\ [][Next]_vars

\* Submission-centred: MaxCalls submissions, SubmitRuns deliveries.
NextSubmit ==
    \/ \E c \in CallIds : SubmitStep(c)
    \/ \E k \in Keys : Expire(k)
    \/ \E r \in 1..SubmitRuns : RunStep(r)

SpecSubmit == Init /\ [][NextSubmit]_vars

\* Rate-limiter-centred: the worker processes call acquire() as time passes.
NextLimiter ==
    \/ \E p \in Workers : LimiterAcquire(p)
    \/ Tick

SpecLimiter == Init /\ [][NextLimiter]_vars

\* Client-centred: MaxGate client calls at a time, from any process.
NextGate ==
    \/ \E g \in GateIds : GateStep(g)
    \/ \E k \in BreakerKeys : BreakerTimeout(k)

SpecGate == Init /\ [][NextGate]_vars

\* The orchestrator-centred system under the scheduling the worker gives: the
\* broker delivers a queued message to a free worker slot, and a task that
\* has started runs on (asyncio.run to the end of the coroutine) as long as
\* its remote calls return and the rate limiter grants.
Fairness == \A r \in RunIds : WF_vars(RunStep(r))

SpecLive == Init /\ [][Next]_vars /\ Fairness

\* The job manager tracking the progress of one job.
LegacyStatuses == {PENDING, PROCESSING, COMPLETED, FAILED}

NextProgress ==
    \/ CreateJob(1, LegacyTotal)
    \/ \E status \in LegacyStatuses : UpdateJobStatus(1, status)
    \/ \E success \in BOOLEAN : UpdateJobProgress(1, "Hospital", success)

SpecProgress == Init /\ [][NextProgress]_vars

\* The job manager creating jobs under a small max_jobs.
SmallMaxJobs == 0..2

NextCleanup ==
    \/ \E max_jobs \in SmallMaxJobs : NewJobManager(max_jobs)
    \/ \E job_id \in LegacyIds : CreateJob(job_id, LegacyTotal)
    \/ \E job_id \in LegacyIds, status \in LegacyStatuses :
           UpdateJobStatus(job_id, status)

SpecCleanup == Init /\ [][NextCleanup]_vars

\* Endpoint-centred: one submission and its run, with status queries and
\* manual activations at any moment.
NextApi ==
    \/ SubmitStep(1)
    \/ RunStep(1)
    \/ \E job_id \in JobIds : StatusQuery(job_id)
    \/ \E batch_id \in BatchIds, outcome \in ActivateOutcomes :
           ManualActivate(batch_id, outcome)

SpecApi == Init /\ [][NextApi]_vars

\* ======================================================================
\* Properties
\* ======================================================================
Returned(c) == call[c].pc = "returned"

\* A later, non-overlapping submission with a key whose last returned
\* response is known (the TTL has not elapsed since).
Replay(c) ==
    /\ Returned(c)
    /\ call[c].prior # NoResponse
    /\ ~call[c].overlap

SameWindow(c, d) ==
    /\ c # d
    /\ Returned(c) /\ Returned(d)
    /\ call[c].key = call[d].key
    /\ call[c].epoch = call[d].epoch
    /\ ~call[c].expired /\ ~call[d].expired
    /\ ~call[c].storeFailed /\ ~call[d].storeFailed

C2_SameKeySameJob ==
    \A c, d \in CallIds :
        SameWindow(c, d) => /\ call[c].resp.job_id = call[d].resp.job_id
                            /\ ~(call[c].dispatched /\ call[d].dispatched)

\* A run that has taken its activation decision and built its response.
Decided(r) == run[r].response # NoResult

AllCreated(r) == \A i \in 1..run[r].n : run[r].results[i].status # "failed"

\* The two store writes that finalize a run.
StoresResult(r) == run[r].pc = "set_result" /\ run'[r].pc = "set_status"

Finalizes(r) == run[r].pc = "set_status" /\ run'[r].pc = "done"

\* C3: in a run whose item creations all succeed, activate_batch is called
\* exactly once; on success every item result is created_and_activated and
\* batch_activated is true, otherwise every item result stays created and
\* batch_activated is false; the response is what the run stores, and the run
\* finalizes the job COMPLETED.
C3_Decision ==
    \A r \in RunIds :
        (Decided(r) /\ AllCreated(r)) =>
            /\ run[r].activate_calls = 1
            /\ run[r].response.hospitals = run[r].results
            /\ run[r].activation = "success" =>
                   /\ \A i \in 1..run[r].n :
                          run[r].results[i].status = "created_and_activated"
                   /\ run[r].response.batch_activated
            /\ run[r].activation # "success" =>
                   /\ \A i \in 1..run[r].n : run[r].results[i].status = "created"
                   /\ ~run[r].response.batch_activated

C3_Finalize ==
    \A r \in RunIds :
        (Decided(r) /\ AllCreated(r)) =>
            /\ StoresResult(r) => jobs'[run[r].job].result = run[r].response
            /\ Finalizes(r) => jobs'[run[r].job].status = COMPLETED

C3_ActivationOnAllCreated == [][C3_Decision' /\ C3_Finalize]_vars

C3_Witness ==
    \E r, q \in RunIds :
        /\ run[r].pc = "done" /\ run[r].activation = "success"
        /\ run[q].pc = "done" /\ run[q].activation \in {"failure", "raised"}

\* C4: in a run with at least one failed item result activate_batch is never
\* called, the stored result has batch_activated = false, and the run
\* finalizes the job COMPLETED.
SomeFailed(r) == \E i \in 1..run[r].n : run[r].results[i].status = "failed"

C4_Decision ==
    \A r \in RunIds :
        (Decided(r) /\ SomeFailed(r)) =>
            /\ run[r].activate_calls = 0
            /\ ~run[r].response.batch_activated
            /\ \A i \in 1..run[r].n :
                   run[r].results[i].status # "created_and_activated"

C4_Finalize ==
    \A r \in RunIds :
        (Decided(r) /\ SomeFailed(r)) =>
            /\ StoresResult(r) => /\ jobs'[run[r].job].result = run[r].response
                                  /\ ~jobs'[run[r].job].result.batch_activated
            /\ Finalizes(r) => jobs'[run[r].job].status = COMPLETED

C4_NoActivationOnFailure == [][C4_Decision' /\ C4_Finalize]_vars

C4_Witness ==
    \E r \in RunIds :
        /\ run[r].pc = "done" /\ SomeFailed(r)
        /\ \E i \in 1..run[r].n : run[r].results[i].status = "created"
        /\ jobs[run[r].job].status = COMPLETED

\* C5: processed + failed <= total while a job is PENDING or PROCESSING, and
\* processed + failed = total whenever it is COMPLETED.
Counted(jm) == jm.processed_hospitals + jm.failed_hospitals

C5_CountsWithinTotal ==
    \A j \in JobIds :
        /\ jobs[j].status \in {PENDING, PROCESSING}
               => Counted(jobs[j]) <= jobs[j].total_hospitals
        /\ jobs[j].status = COMPLETED
               => Counted(jobs[j]) = jobs[j].total_hospitals

C5_Witness ==
    \E j \in JobIds :
        /\ jobs[j].status = COMPLETED
        /\ jobs[j].failed_hospitals > 0
        /\ jobs[j].processed_hospitals > 0

\* C6: whenever a job is COMPLETED its processed count equals its total count,
\* i.e. its progress percentage is 100.
C6_CompletedMeansAllProcessed ==
    \A j \in JobIds :
        jobs[j].status = COMPLETED
            => /\ jobs[j].processed_hospitals = jobs[j].total_hospitals
               /\ ProgressPercentage(jobs[j]) = 10000

\* C7: when dispatch fails, the job is FAILED with the descriptive error by the
\* time the failure reaches the caller, it is never PROCESSING (nor COMPLETED)
\* from the failed dispatch on, and no job is PENDING unless a unit of work for
\* it is in flight or its submission is still between create and clean-up.
WorkInFlight(j) ==
    \/ \E m \in queue : m.job = j
    \/ \E r \in RunIds : run[r].pc = "start" /\ run[r].job = j

Submitting(j) ==
    \E c \in CallIds : call[c].job = j /\ call[c].pc \in {"dispatch", "fail_status"}

C7_DispatchFailureFailsJob ==
    /\ \A c \in CallIds :
           /\ call[c].pc = "raised"
                  => /\ jobs[call[c].job].status = FAILED
                     /\ jobs[call[c].job].error = call[c].failure
                     /\ call[c].failure # None
           /\ call[c].pc = "fail_status" => jobs[call[c].job].status = PENDING
           /\ call[c].pc = "fail_error" => jobs[call[c].job].status = FAILED
    /\ \A j \in JobIds :
           jobs[j].status = PENDING => (WorkInFlight(j) \/ Submitting(j))

C7_Witness ==
    \E c, d \in CallIds :
        /\ call[c].pc = "raised" /\ jobs[call[c].job].status = FAILED
        /\ call[d].pc = "returned" /\ call[d].job # 0
        /\ jobs[call[d].job].status = PROCESSING

\* C8: job status only moves PENDING -> PROCESSING -> COMPLETED | FAILED or
\* PENDING -> FAILED, and a COMPLETED or FAILED job never changes status.
AllowedTransitions ==
    {<<"absent", PENDING>>, <<PENDING, PROCESSING>>, <<PENDING, FAILED>>,
     <<PROCESSING, COMPLETED>>, <<PROCESSING, FAILED>>}

C8_Step ==
    \A j \in JobIds :
        \/ jobs'[j].status = jobs[j].status
        \/ <<jobs[j].status, jobs'[j].status>> \in AllowedTransitions

C8_MonotonicStatus == [][C8_Step]_vars

\* C9: when a unit of work is delivered for a job that is already COMPLETED or
\* FAILED, the orchestrator returns at once: the job record is unchanged and
\* no batch id is minted.
C9_Step ==
    \A r \in RunIds :
        (/\ run[r].pc = "start"
         /\ jobs[run[r].job].status \in Terminal
         /\ run'[r].pc # "start")
            => /\ jobs' = jobs
               /\ nextBatch' = nextBatch
               /\ run'[r].pc = "done"

C9_RedeliveryIsNoOp == [][C9_Step]_vars

\* C10: completed_at is absent while the job is PENDING or PROCESSING, and once
\* written it is never written again.
C10_AbsentUntilTerminal ==
    \A j \in JobIds :
        jobs[j].status \in {PENDING, PROCESSING} => jobs[j].completed_at = 0

C10_Step ==
    \A j \in JobIds :
        jobs[j].completed_at # 0 => jobs'[j].completed_at = jobs[j].completed_at

C10_CompletedAtWrittenOnce == [][C10_AbsentUntilTerminal' /\ C10_Step]_vars

\* C11: an error return or an exception from one item's create call becomes a
\* failed result of that item only: the step leaves every sibling result and
\* the job record as they were, the barrier hands on one result per item (row
\* by row, failures kept), and whatever subset of items failed the run's
\* finalizing write makes the job COMPLETED.
C11_ItemStep ==
    \A r \in RunIds :
        (run[r].pc = "create" /\ run'[r] # run[r]) =>
            /\ jobs' = jobs
            /\ \/ /\ run'[r].pc = "create"
                  /\ \E i \in 1..run[r].n :
                         /\ run[r].results[i].status = "pending"
                         /\ run'[r].results[i].status \in {"created", "failed"}
                         /\ run'[r].results[i].row = RowNumber(i)
                         /\ \A k \in (1..run[r].n) \ {i} :
                                run'[r].results[k] = run[r].results[k]
               \/ /\ run'[r].pc = "set_result"
                  /\ Len(run'[r].response.hospitals) = run[r].n
                  /\ \A i \in 1..run[r].n :
                         /\ run'[r].response.hospitals[i].row = RowNumber(i)
                         /\ run[r].results[i].status = "failed"
                                => run'[r].response.hospitals[i] = run[r].results[i]

C11_Finalize ==
    \A r \in RunIds :
        Finalizes(r) => /\ jobs'[run[r].job].status = COMPLETED
                        /\ Len(jobs'[run[r].job].result.hospitals) = run[r].n

C11_PerItemIsolation == [][C11_ItemStep /\ C11_Finalize]_vars

C11_Witness ==
    \E r \in RunIds :
        /\ run[r].pc = "done" /\ run[r].n = 2
        /\ run[r].results[1].error_message = "Unexpected error"
        /\ run[r].results[2].error_message = "API returned status"
        /\ jobs[run[r].job].status = COMPLETED
        /\ jobs[run[r].job].failed_hospitals = 2

\* C12: when an exception escapes the per-job procedure, the job is FAILED with
\* the exception text as its error at the moment the run raises; the run does
\* nothing afterwards (it never marks the job COMPLETED), only a run that did
\* not raise marks a job COMPLETED, and the raise puts no unit of work back.
Escapes(r) == run[r].pc # "raised" /\ run'[r].pc = "raised"

C12_Step ==
    /\ \A r \in RunIds :
           /\ Escapes(r) => /\ jobs'[run[r].job].status = FAILED
                            /\ jobs'[run[r].job].error = run'[r].error
                            /\ run'[r].error # None
                            /\ queue' = queue
           /\ run[r].pc = "raised" => run'[r] = run[r]
    /\ \A j \in JobIds :
           (jobs[j].status # COMPLETED /\ jobs'[j].status = COMPLETED)
               => \E q \in RunIds : /\ Finalizes(q) /\ run[q].job = j
                                    /\ run[q].error = None

C12_EscapedExceptionFailsJob == [][C12_Step]_vars

C12_Witness ==
    \E r \in RunIds :
        /\ run[r].pc = "raised"
        /\ run[r].response # NoResult
        /\ jobs[run[r].job].status = FAILED
        /\ jobs[run[r].job].error = ProcessingError

BreakerOf(g) == breaker[StorageKey(gate[g].proc, gate[g].op)]

IsOpen(b) == b.state = "open" /\ ~b.elapsed

Moves(g) == gate'[g] # gate[g]

\* C14: a client call that reaches the breaker while it is OPEN ends at once
\* with CircuitBreakerError: it has made no remote attempt, it is not retried
\* (the call is over, the breaker storage untouched), and for create_hospital
\* the item result is a failed one.
C14_State ==
    \A g \in GateIds :
        (gate[g].pc = "raised" /\ gate[g].attempts = 0) =>
            /\ gate[g].error = "CircuitBreakerError"
            /\ gate[g].op = "create_hospital" =>
                   /\ CreateSingleHospital(1, ClientOutcome(gate[g])).status = "failed"
                   /\ CreateSingleHospital(1, ClientOutcome(gate[g])).hospital_id = 0

C14_Step ==
    \A g \in GateIds :
        /\ (gate[g].pc = "breaker" /\ IsOpen(BreakerOf(g)) /\ Moves(g)) =>
               /\ gate'[g].pc = "raised"
               /\ gate'[g].error = "CircuitBreakerError"
               /\ gate'[g].attempts = 0
               /\ breaker' = breaker
        /\ (gate[g].pc = "raised" /\ Moves(g)) => gate'[g] = IdleGate

C14_OpenFailsFast == [][C14_State' /\ C14_Step]_vars

C14_Witness ==
    \E g \in GateIds :
        /\ gate[g].pc = "raised" /\ gate[g].attempts = 0
        /\ gate[g].op = "create_hospital"
        /\ IsOpen(BreakerOf(g))

\* A remote attempt starts: acquire() has returned and the request is sent.
StartsAttempt(g) == gate[g].pc = "acquire" /\ gate'[g].pc = "http"

\* The failure that brings the counter to the threshold opens the breaker.
C15_Opens ==
    /\ \A k \in BreakerKeys :
           (breaker'[k].fail_counter > breaker[k].fail_counter
            /\ breaker'[k].fail_counter >= circuit_breaker_failure_threshold)
               => IsOpen(breaker'[k])
    /\ \A k \in BreakerKeys :
           breaker'[k].state = "closed"
               => breaker'[k].fail_counter < circuit_breaker_failure_threshold

\* A call is admitted by the breaker only when it is not OPEN.
C15_Arrivals ==
    \A g \in GateIds :
        (gate[g].pc = "breaker" /\ gate'[g].pc = "acquire") => ~IsOpen(BreakerOf(g))

\* C15 (as stated): after failure_threshold consecutive failures the breaker
\* is OPEN and no caller invokes the remote operation while it is OPEN, the
\* item tasks admitted while it was CLOSED included.
C15_NoAttemptWhileOpen ==
    [][/\ C15_Opens
       /\ C15_Arrivals
       /\ \A g \in GateIds : StartsAttempt(g) => ~IsOpen(BreakerOf(g))]_vars

\* C15 (amended): after failure_threshold consecutive failures the breaker is
\* OPEN and every call that arrives at the breaker from then on is refused
\* without a remote attempt; a remote attempt that starts while the breaker is
\* OPEN belongs to a call admitted before it opened.
C15_NextArrivalFailsFast ==
    [][/\ C15_Opens
       /\ C15_Arrivals
       /\ \A g \in GateIds :
              (StartsAttempt(g) /\ IsOpen(BreakerOf(g)))
                  => gate[g].admitted \in {"closed", "half_open"}]_vars

C15_Witness ==
    \E g, h \in GateIds :
        /\ IsOpen(BreakerOf(g))
        /\ BreakerOf(g).fail_counter = circuit_breaker_failure_threshold
        /\ gate[g].pc = "raised" /\ gate[g].attempts = 0
        /\ gate[h].pc = "http" /\ gate[h].admitted = "closed"
        /\ gate[h].attempts > 0

\* C16: once the timeout has elapsed exactly one trial call is in progress at
\* a time, however many callers arrive; a successful trial closes the breaker,
\* a failed trial opens it again with the timeout restarted.
Trials == {g \in GateIds : /\ gate[g].pc \in {"acquire", "http", "backoff"}
                           /\ gate[g].admitted = "half_open"}

C16_State == Cardinality(Trials) <= 1

C16_Step ==
    \A g \in GateIds :
        (g \in Trials /\ Moves(g)) =>
            /\ gate'[g].pc = "returned" => BreakerOf(g)' .state = "closed"
            /\ gate'[g].pc = "raised" => IsOpen(BreakerOf(g)')

C16_SingleTrial == [][C16_State' /\ C16_Step]_vars

\* C17: the breaker state is one per endpoint name: while it is OPEN after
\* failures seen by one process, a call of any operation from any other
\* process is refused at once, and no process has a breaker state of its own.
C17_Step ==
    \A g \in GateIds, k \in BreakerKeys :
        (/\ gate[g].pc = "breaker" /\ Moves(g)
         /\ IsOpen(breaker[k]) /\ breaker[k].opened_by # gate[g].proc)
            => /\ gate'[g].pc = "raised"
               /\ gate'[g].error = "CircuitBreakerError"

C17_State ==
    \A k \in BreakerKeys : k # BreakerName => breaker[k] = ClosedBreaker

C17_SharedBreaker == [][C17_State' /\ C17_Step]_vars

C17_Witness ==
    \E g, h \in GateIds :
        /\ IsOpen(breaker[BreakerName])
        /\ breaker[BreakerName].opened_by = "worker1"
        /\ gate[g].pc = "raised" /\ gate[g].attempts = 0
        /\ gate[g].proc = "api" /\ gate[g].op = "activate_batch"
        /\ gate[h].pc = "raised" /\ gate[h].attempts = 0
        /\ gate[h].proc = "worker2"

\* C20: one create_hospital call makes at most max_attempts remote attempts: a
\* failed attempt before the last is followed by a backoff and another
\* attempt, the failure of attempt max_attempts raises to the caller, and a
\* call that raised makes no further attempt.
C20_State ==
    \A g \in GateIds :
        /\ gate[g].attempts <= retry_max_attempts
        /\ gate[g].pc = "backoff" => /\ gate[g].attempts < retry_max_attempts
                                     /\ gate[g].op = "create_hospital"
        /\ (gate[g].pc = "raised" /\ gate[g].attempts > 0)
               => gate[g].attempts = retry_max_attempts

C20_Step ==
    \A g \in GateIds :
        /\ (gate[g].pc = "http" /\ Moves(g)) =>
               /\ gate'[g].attempts = gate[g].attempts + 1
               /\ gate'[g].pc \in {"returned", "backoff", "raised"}
               /\ gate'[g].pc = "backoff" => gate'[g].attempts < retry_max_attempts
        /\ (gate[g].pc = "backoff" /\ Moves(g)) =>
               /\ gate'[g].pc = "acquire"
               /\ gate'[g].attempts = gate[g].attempts
        /\ (gate[g].pc = "raised" /\ Moves(g)) => gate'[g].pc = "idle"

AcquiredBy(ps) ==
    LET RECURSIVE Sum(_)
        Sum(S) == IF S = {} THEN 0
                  ELSE LET p == CHOOSE q \in S : TRUE
                       IN acquired[p] + Sum(S \ {p})
    IN Sum(ps)

C18_GlobalRateBound ==
    now < PeriodTicks => AcquiredBy(Workers) <= rate_limit_requests

\* C19: N calls through acquire() of one limiter with max_rate = R per
\* time_period = P complete no faster than ceil(N / R) * P - P.
CeilDiv(a, b) == (a + b - 1) \div b

C19_Pacing ==
    \A p \in Workers :
        now >= (CeilDiv(acquired[p], rate_limit_requests) - 1) * PeriodTicks

\* C21: a non-2xx answer to create_hospital is returned as (None, error): the
\* call does not raise and is not retried (the request that was refused is its
\* last one, and its only one when it was the first), and the item result is
\* a failed one carrying the error message.
C21_State ==
    \A g \in GateIds :
        (gate[g].op = "create_hospital" /\ gate[g].answer = "non_2xx") =>
            /\ gate[g].pc = "returned"
            /\ gate[g].result = "error"
            /\ gate[g].error = None
            /\ CreateSingleHospital(1, ClientOutcome(gate[g]))
                   = HospitalProcessingResult(RowNumber(1), 0, "failed",
                                              "API returned status")

C21_Step ==
    \A g \in GateIds :
        /\ (gate[g].pc = "http" /\ gate[g].op = "create_hospital"
            /\ gate'[g].answer = "non_2xx")
               => /\ gate'[g].attempts = gate[g].attempts + 1
                  /\ gate[g].answer = None => gate'[g].attempts = 1
        /\ (gate[g].pc = "returned" /\ Moves(g)) => gate'[g] = IdleGate

C21_RejectionIsReturned == [][C21_State' /\ C21_Step]_vars

C21_Witness ==
    \E g \in GateIds :
        /\ gate[g].op = "create_hospital" /\ gate[g].pc = "returned"
        /\ gate[g].answer = "non_2xx" /\ gate[g].attempts = 1

\* C22: activate_batch has the contract of create_hospital: a timeout or
\* request error of an attempt before the last is followed by a backoff and
\* another attempt, the failure of attempt max_attempts raises to the caller,
\* and (False, error) is returned only for a non-2xx answer.
C22_Step ==
    \A g \in GateIds :
        (gate[g].op = "activate_batch" /\ gate[g].pc = "http" /\ Moves(g)) =>
            /\ gate'[g].answer = "exception" =>
                   IF gate'[g].attempts < retry_max_attempts
                   THEN gate'[g].pc = "backoff"
                   ELSE gate'[g].pc = "raised"
            /\ gate'[g].result = "error" => gate'[g].answer = "non_2xx"

C22_ActivateSameContract == [][C22_Step]_vars

\* C23: when auto-activation returns failure or raises, the run still
\* finalizes the job COMPLETED, the item results stay created, batch_activated
\* is false, and the job record retains the reason of the activation failure
\* (the only places of the record that hold a text are its error column and
\* the error_message of the item results of its result).
ActivationFailed(r) == run[r].activation \in {"failure", "raised"}

RetainsReason(jm) ==
    \/ jm.error # None
    \/ \E i \in DOMAIN jm.result.hospitals :
           jm.result.hospitals[i].error_message # None

C23_Step ==
    \A r \in RunIds :
        (ActivationFailed(r) /\ Finalizes(r)) =>
            LET jm == jobs'[run[r].job]
            IN /\ jm.status = COMPLETED
               /\ \A i \in DOMAIN jm.result.hospitals :
                      jm.result.hospitals[i].status = "created"
               /\ ~jm.result.batch_activated
               /\ RetainsReason(jm)

C23_ActivationFailureRetained == [][C23_Step]_vars

\* C24: the idempotency cache fails open. A lookup that cannot reach the store
\* is a miss and a write that cannot reach it stores nothing, neither raises:
\* the submission goes on to create its job, and when it returns it has
\* created a job, dispatched it and answers with the accepted response. Only
\* the dispatch failure path makes submit_bulk_job raise.
C24_State ==
    \A c \in CallIds :
        (Returned(c) /\ call[c].storeFailed) =>
            /\ call[c].job # 0
            /\ jobs[call[c].job].status # "absent"
            /\ jobs[call[c].job].total_hospitals = call[c].n
            /\ call[c].dispatched
            /\ call[c].resp = JobSubmitResponse(call[c].job, PENDING,
                                                AcceptedMessage, call[c].n)

C24_Step ==
    \A c \in CallIds :
        /\ (call[c].pc = "get" /\ call'[c].storeFailed) =>
               /\ call'[c].pc = "create"
               /\ cache' = cache
        /\ (call[c].pc = "respond" /\ ~call[c].storeFailed
            /\ call'[c].storeFailed) =>
               /\ call'[c].pc = "returned"
               /\ cache' = cache
        /\ (call[c].pc # "raised" /\ call'[c].pc = "raised") =>
               call[c].pc = "fail_error"

C24_CacheFailsOpen == [][C24_State' /\ C24_Step]_vars

C24_Witness ==
    \E c \in CallIds :
        /\ Returned(c) /\ call[c].storeFailed /\ call[c].dispatched
        /\ cache[call[c].key] = <<>>
        /\ epoch[call[c].key] = 0

\* C25: a submission refused for its input (blank Idempotency-Key, or a file
\* that fails validation) is refused before the service is entered: the step
\* that refuses it creates no job record, dispatches nothing, writes no
\* idempotency entry and changes nothing else, and the refused call never
\* does any of these later. What is let through to the service has a key that
\* is not blank and between 1 and max_csv_rows items.
Rejected(c) == call[c].pc = "rejected"

C25_State ==
    \A c \in CallIds :
        Rejected(c) => /\ call[c].job = 0
                       /\ ~call[c].dispatched
                       /\ call[c].resp = NoResponse
                       /\ call[c].failure # None

C25_Step ==
    \A c \in CallIds :
        /\ (call[c].pc = "idle" /\ Rejected(c)') =>
               /\ UNCHANGED <<cache, jobs, nextJob, queue, run, nextBatch,
                              epoch, lastResp>>
               /\ \A d \in CallIds \ {c} : call'[d] = call[d]
        /\ (call[c].pc = "idle" /\ call'[c].pc \notin {"idle", "rejected"}) =>
               /\ call'[c].pc = "get"
               /\ Strip(call'[c].key) # ""
               /\ call'[c].n \in 1..max_csv_rows
        /\ Rejected(c) => call'[c] = call[c]

C25_RejectionChangesNothing == [][C25_State' /\ C25_Step]_vars

\* Both kinds of refusal have happened.
C25_Witness ==
    /\ Rejected(1) /\ call[1].failure = KeyRequired
    /\ Rejected(2) /\ call[2].failure = "CSV exceeds maximum allowed rows"

\* C26: a status query for a job id that was never created is answered
\* not-found (404) and changes nothing. From the moment a submission has
\* returned, a status query for the job of its response is answered (200) with
\* the submitted item count as total and a status among pending, processing,
\* completed and failed; the submission response itself says pending.
Statuses == {PENDING, PROCESSING, COMPLETED, FAILED}

C26_State ==
    /\ \A job_id \in JobIds :
           job_id >= nextJob => GetJobStatus(jobs, job_id) = JobNotFound
    /\ \A c \in CallIds :
           Returned(c) =>
               LET status == GetJobStatus(jobs, call[c].resp.job_id)
               IN /\ call[c].resp.status = PENDING
                  /\ status # JobNotFound
                  /\ status.job_id = call[c].resp.job_id
                  /\ status.total_hospitals = call[c].resp.total_hospitals
                  /\ call[c].job # 0 => status.total_hospitals = call[c].n
                  /\ status.status \in Statuses

C26_Step ==
    (reply' # reply /\ reply'.endpoint = "status") =>
        /\ UNCHANGED <<call, cache, jobs, nextJob, queue, run, nextBatch,
                       epoch, lastResp, limVars, gateVars>>
        /\ reply'.body = GetJobStatus(jobs, reply'.arg)
        /\ IF reply'.arg >= nextJob
           THEN reply'.code = 404 /\ reply'.body = JobNotFound
           ELSE reply'.code = 200 /\ reply'.body.status \in Statuses

C26_StatusQuery == [][C26_State' /\ C26_Step]_vars

\* The query made right after submit returned, and answered with pending.
C26_Witness ==
    /\ Returned(1)
    /\ reply.endpoint = "status" /\ reply.code = 200
    /\ reply.arg = call[1].resp.job_id
    /\ reply.body.status = PENDING
    /\ reply.body.total_hospitals = call[1].n

\* C28: manual activation calls activate_batch once and reports its success
\* or failure; the step reads and writes no job record: every job's status,
\* counts, item statuses and batch_activated flag, and everything else the
\* pipeline keeps, are what they were.
C28_Step ==
    (reply' # reply /\ reply'.endpoint = "activate") =>
        /\ jobs' = jobs
        /\ UNCHANGED <<call, cache, nextJob, queue, run, nextBatch, epoch,
                       lastResp, limVars, gateVars>>
        /\ reply'.ops = <<"activate_batch">>
        /\ \/ reply'.code = 200 /\ reply'.body.activated
                                /\ reply'.body.error_message = None
           \/ reply'.code = 200 /\ ~reply'.body.activated
                                /\ reply'.body.error_message # None
           \/ reply'.code = 500
        /\ reply'.code = 200 => reply'.body.batch_id = reply'.arg

C28_ManualActivationIndependent == [][C28_Step]_vars

\* The batch of a completed job that was not auto-activated has been
\* activated manually, and the job record still says not activated.
C28_Witness ==
    /\ reply.endpoint = "activate" /\ reply.code = 200 /\ reply.body.activated
    /\ \E j \in JobIds :
           /\ jobs[j].status = COMPLETED
           /\ jobs[j].result.batch_id = reply.arg
           /\ ~jobs[j].result.batch_activated

\* C27: under the fairness of SpecLive, every job whose submission returned
\* after dispatching its unit of work eventually has status COMPLETED or FAILED.
Accepted(j) ==
    \E c \in CallIds :
        Returned(c) /\ call[c].dispatched /\ call[c].job = j

C27_EventuallyTerminal ==
    \A j \in JobIds : Accepted(j) ~> (jobs[j].status \in Terminal)

C27_Witness ==
    \E j \in JobIds, r \in RunIds :
        /\ Accepted(j)
        /\ run[r].job = j /\ run[r].pc = "done"
        /\ jobs[j].status = COMPLETED

\* C29: a submission made after the entry of its key has expired (no other
\* submission with the key was in progress at the expiry or overlaps it, and
\* the store is reachable) is treated as the first submission with a key never
\* used: the lookup misses, a job with a new id is created, a new unit of work
\* is dispatched, and the new response is stored under the key.
AfterExpiry(c) ==
    /\ call[c].epoch > 0
    /\ call[c].prior = NoResponse
    /\ ~call[c].overlap /\ ~call[c].expired /\ ~call[c].storeFailed
    /\ \A d \in CallIds \ {c} : call[d].key = call[c].key => ~call[d].expired

FirstUse(c) ==
    /\ call[c].job # 0
    /\ call[c].dispatched
    /\ call[c].resp = JobSubmitResponse(call[c].job, PENDING, AcceptedMessage,
                                        call[c].n)
    /\ jobs[call[c].job].total_hospitals = call[c].n
    /\ \A d \in CallIds :
           d < c => /\ call[d].job # call[c].job
                    /\ call[d].resp.job_id # call[c].job

C29_State ==
    \A c \in CallIds : (Returned(c) /\ AfterExpiry(c)) => FirstUse(c)

C29_Step ==
    \A c \in CallIds :
        /\ (call[c].pc = "get" /\ AfterExpiry(c) /\ call'[c].pc # "get"
            /\ ~call'[c].storeFailed) => call'[c].pc = "create"
        /\ (call[c].pc = "create" /\ call'[c].pc = "dispatch") =>
               /\ jobs[call'[c].job].status = "absent"
               /\ jobs'[call'[c].job] = RepoCreate(call[c].n)
        /\ (call[c].pc = "dispatch" /\ call'[c].dispatched) =>
               /\ [job |-> call[c].job, n |-> call[c].n] \notin queue
               /\ [job |-> call[c].job, n |-> call[c].n] \in queue'
        /\ (call[c].pc = "respond" /\ AfterExpiry(c)' /\ Returned(c)') =>
               cache'[call[c].key] = JsonDumps(call'[c].resp)

C29_ExpiredKeyIsFresh == [][C29_State' /\ C29_Step]_vars

C29_Witness ==
    /\ Returned(1) /\ call[1].job # 0
    /\ Returned(2) /\ AfterExpiry(2) /\ call[2].key = call[1].key
    /\ call[2].job \notin {0, call[1].job}
    /\ call[2].dispatched

\* C30: a run holds one item result per input item, in item order and with
\* the item's row number, and the result list it stores is that list.
Produced(r, i) == i \in DOMAIN run[r].results /\ run[r].results[i].status # "pending"

C30_OnePerItem ==
    \A r \in RunIds :
        /\ (run[r].pc \in {"create", "set_result", "set_status", "done"}
            \/ run[r].results # <<>>) =>
               /\ Len(run[r].results) = run[r].n
               /\ \A i \in 1..run[r].n : run[r].results[i].row = RowNumber(i)
        /\ Decided(r) =>
               /\ \A i \in 1..run[r].n : Produced(r, i)
               /\ run[r].response.hospitals = run[r].results
               /\ run[r].response.total_hospitals = run[r].n

\* C30 (as stated): an item result, once produced, is never modified.
C30_Unmodified ==
    \A r \in RunIds : \A i \in 1..MaxItems :
        Produced(r, i) => run'[r].results[i] = run[r].results[i]

C30_ImmutableResults == [][C30_OnePerItem' /\ C30_Unmodified]_vars

\* C30 (amended): an item result, once produced, is never modified, except
\* that a successful activation changes its status from created to
\* created_and_activated and nothing else of it.
C30_Upgrade(r, i) ==
    /\ run[r].activation = None /\ run'[r].activation = "success"
    /\ run[r].results[i].status = "created"
    /\ run'[r].results[i] =
           [run[r].results[i] EXCEPT !.status = "created_and_activated"]

C30_UnmodifiedButUpgrade ==
    \A r \in RunIds : \A i \in 1..MaxItems :
        Produced(r, i) =>
            \/ run'[r].results[i] = run[r].results[i]
            \/ C30_Upgrade(r, i)

C30_ImmutableUpToUpgrade == [][C30_OnePerItem' /\ C30_UnmodifiedButUpgrade]_vars

C30_Witness ==
    \E r, q \in RunIds :
        /\ run[r].pc = "done" /\ run[r].n = MaxItems
        /\ run[r].activation = "success"
        /\ \A i \in 1..run[r].n : run[r].results[i].status = "created_and_activated"
        /\ run[q].pc = "done" /\ run[q].activation = "failure"

\* C31: a run mints one batch id, not used before, in the step that sets the
\* job PROCESSING; every create call and the activation call of the run carry
\* that id, the result the run stores names it, and no two runs have the same.
Minted(r) == run[r].batch_id # 0

C31_State ==
    \A r \in RunIds :
        /\ run[r].pc \in {"create", "set_result", "set_status", "done"} => Minted(r)
        /\ run[r].batch_ids_sent \subseteq {run[r].batch_id}
        /\ run[r].remote_ops # {} => run[r].batch_ids_sent = {run[r].batch_id}
        /\ Decided(r) => run[r].response.batch_id = run[r].batch_id
        /\ \A q \in RunIds \ {r} :
               (Minted(r) /\ Minted(q)) => run[r].batch_id # run[q].batch_id

C31_Step ==
    \A r \in RunIds :
        /\ (~Minted(r) /\ Minted(r)') =>
               /\ run[r].pc = "start"
               /\ jobs'[run[r].job].status = PROCESSING
               /\ \A q \in RunIds : run[q].batch_id # run'[r].batch_id
        /\ Minted(r) => run'[r].batch_id = run[r].batch_id
        /\ StoresResult(r) =>
               jobs'[run[r].job].result.batch_id = run[r].batch_id

C31_OneBatchPerRun == [][C31_State' /\ C31_Step]_vars

C31_Witness ==
    \E r, q \in RunIds :
        /\ r # q /\ run[r].job = run[q].job
        /\ run[r].pc = "done" /\ run[q].pc = "done"
        /\ run[r].remote_ops = {"create_hospital", "activate_batch"}
        /\ run[q].remote_ops = {"create_hospital", "activate_batch"}
        /\ run[r].batch_id # run[q].batch_id

\* C32: every update_job_progress adds one to processed_hospitals, for a
\* success and for a failure, and adds one to failed_hospitals on a failure
\* only: after k updates processed = k and failed <= processed.
Failures(log) == Cardinality({i \in DOMAIN log : log[i].status = "failed"})

C32_State ==
    \A j \in LegacyIds :
        LET job == manager.jobs[j]
        IN job.present =>
               /\ job.processed_hospitals = Len(job.log)
               /\ job.failed_hospitals = Failures(job.log)
               /\ job.failed_hospitals <= job.processed_hospitals

C32_Step ==
    \A j \in LegacyIds :
        LET job == manager.jobs[j]
            after == manager'.jobs[j]
        IN (job.present /\ Len(after.log) = Len(job.log) + 1) =>
               /\ after.processed_hospitals = job.processed_hospitals + 1
               /\ after.failed_hospitals =
                      job.failed_hospitals
                          + (IF after.log[Len(after.log)].status = "failed"
                             THEN 1 ELSE 0)

C32_ProgressCounts == [][C32_State' /\ C32_Step]_vars

C32_Witness ==
    \E j \in LegacyIds :
        /\ manager.jobs[j].processed_hospitals = LegacyTotal
        /\ manager.jobs[j].failed_hospitals = 4

\* C34: recent_updates of the status response holds exactly the last 5
\* updates of the job (all of them while fewer than 5 were made), in the
\* order they were made, the most recent last.
LastOf(log, count) ==
    IF Len(log) <= count THEN log
    ELSE SubSeq(log, Len(log) - count + 1, Len(log))

C34_LastFiveUpdates ==
    \A j \in LegacyIds :
        manager.jobs[j].present =>
            ToStatusResponse(j, manager.jobs[j]).recent_updates
                = LastOf(manager.jobs[j].log, 5)

\* C33 (first part): a job that is PENDING or PROCESSING is never removed.
Active(job) == job.present /\ job.status \in {PENDING, PROCESSING}

Finished(job) == job.present /\ job.status \in Terminal

CreateReturns == manager'.next = manager.next + 1

C33_ActiveKept ==
    \A j \in LegacyIds : Active(manager.jobs[j]) => manager'.jobs[j].present

\* C33 (order of removal): a job removed by create_job was finished, and was
\* finished no later than every finished job that is kept.
C33_OldestFirst ==
    \A j, i \in LegacyIds :
        (manager.jobs[j].present /\ ~manager'.jobs[j].present) =>
            /\ CreateReturns
            /\ Finished(manager.jobs[j])
            /\ (Finished(manager.jobs[i]) /\ manager'.jobs[i].present) =>
                   manager.jobs[j].completed_at <= manager.jobs[i].completed_at

\* A create_job made when every job created before is COMPLETED or FAILED.
C33_Disciplined ==
    /\ CreateReturns
    /\ \A j \in LegacyIds : manager.jobs[j].present => Finished(manager.jobs[j])

\* C33 (as stated): ... and after such a create_job the number of jobs kept
\* is at most max_jobs, whatever max_jobs is.
C33_Step ==
    /\ C33_ActiveKept
    /\ C33_OldestFirst
    /\ C33_Disciplined =>
           Cardinality(Retained(manager'.jobs)) <= manager.max_jobs

C33_StepAtLeastOne ==
    /\ C33_ActiveKept
    /\ C33_OldestFirst
    /\ (C33_Disciplined /\ manager.max_jobs >= 1) =>
           Cardinality(Retained(manager'.jobs)) <= manager.max_jobs
    /\ CreateReturns => manager'.jobs[manager.next].present

Counter == breaker[BreakerName].fail_counter

Exhausted(g) ==
    /\ gate[g].pc = "http" /\ gate'[g].pc = "raised"
    /\ gate[g].op = "create_hospital"
    /\ gate'[g].attempts = retry_max_attempts
    /\ gate'[g].answer = "exception"

C39_Step ==
    /\ Counter' > Counter =>
           /\ Counter' = Counter + 1
           /\ \E g \in GateIds : Exhausted(g)
    /\ \A g \in GateIds :
           /\ Exhausted(g) => Counter' = Counter + 1
           /\ (gate[g].pc = "http" /\ gate'[g].pc = "backoff") =>
                  /\ gate'[g].attempts < retry_max_attempts
                  /\ breaker' = breaker
           /\ (gate[g].pc = "http" /\ gate'[g].pc = "returned") =>
                  /\ Counter' = 0
                  /\ gate[g].op = "create_hospital" =>
                         gate'[g].answer \in {"2xx", "non_2xx"}
           /\ (gate[g].pc = "http" /\ gate'[g].pc = "raised") => Exhausted(g)
           /\ (gate[g].pc = "http" /\ gate'[g] # gate[g]
                   /\ gate[g].op # "create_hospital") =>
                  gate'[g].pc = "returned"

C39_OneFailurePerCall == [][C39_Step]_vars

\* A create_hospital call has raised after three attempts, which counted as
\* one failure, and an activate_batch call that ended with an exception
\* inside has returned since and has reset the counter.
C39_Witness ==
    \E g, h \in GateIds :
        /\ gate[g].pc = "raised" /\ gate[g].error = "ExternalAPIException"
        /\ gate[g].attempts = retry_max_attempts
        /\ gate[h].pc = "returned" /\ gate[h].op = "activate_batch"
        /\ gate[h].answer = "exception"
        /\ Counter = 0

\* C40: the layers of a client call are, in order, the breaker check, the
\* retry loop, the rate-limit acquire and the request: a request is sent only
\* straight after an acquire of its own, an acquire is made only after the
\* breaker admitted the call or after a backoff, and a call the breaker
\* rejects acquires nothing and sends nothing.
C40_State ==
    \A g \in GateIds :
        /\ gate[g].acquires =
               gate[g].attempts + (IF gate[g].pc = "http" THEN 1 ELSE 0)
        /\ gate[g].admitted = None => gate[g].acquires = 0
        /\ (gate[g].pc = "raised" /\ gate[g].attempts = 0) =>
               /\ gate[g].admitted = None
               /\ gate[g].error = "CircuitBreakerError"
        /\ gate[g].pc \in {"acquire", "http", "backoff", "returned"} =>
               gate[g].admitted # None

C40_Step ==
    \A g \in GateIds :
        /\ (gate'[g].pc = "http" /\ gate[g].pc # "http") =>
               /\ gate[g].pc = "acquire"
               /\ gate'[g].acquires = gate[g].acquires + 1
        /\ (gate'[g].pc = "acquire" /\ gate[g].pc # "acquire") =>
               gate[g].pc \in {"breaker", "backoff"}
        /\ gate'[g].attempts # gate[g].attempts =>
               \/ gate'[g] = IdleGate
               \/ gate[g].pc = "http" /\ gate'[g].attempts = gate[g].attempts + 1
        /\ (gate[g].pc = "breaker" /\ gate'[g].pc # "breaker") =>
               gate'[g].pc \in {"acquire", "raised"}

C40_LayerOrder == [][C40_State' /\ C40_Step]_vars

\* One call has made three requests on three acquires and has opened the
\* breaker; another was rejected by the open breaker and acquired nothing.
C40_Witness ==
    \E g, h \in GateIds :
        /\ gate[g].pc = "raised" /\ gate[g].attempts = retry_max_attempts
        /\ gate[g].acquires = retry_max_attempts
        /\ gate[h].pc = "raised" /\ gate[h].admitted = None
        /\ gate[h].acquires = 0 /\ gate[h].attempts = 0
        /\ breaker[BreakerName].state = "open"

\* C35 (as stated): a submission that reuses a key within the TTL with another
\* item list returns the first submission's job id and item count, and its
\* own item list is never stored, dispatched or processed.
OtherList(c) == Replay(c) /\ call[c].n # call[c].prior.total_hospitals

ListDropped(c) ==
    /\ call[c].resp = call[c].prior
    /\ call[c].resp.total_hospitals # call[c].n
    /\ call[c].job = 0
    /\ ~call[c].dispatched
    /\ \A j \in JobIds :
           jobs[j] # AbsentJob => \E d \in CallIds \ {c} : call[d].job = j
    /\ \A m \in queue : \E d \in CallIds \ {c} : call[d].job = m.job
    /\ \A r \in RunIds :
           run[r].job # 0 => \E d \in CallIds \ {c} : call[d].job = run[r].job

DispatchFailed(c) == call[c].pc = "raised" /\ call[c].failure # None

LaterSameKey(c, d) ==
    /\ c < d
    /\ call[d].pc \notin {"idle", "rejected"}
    /\ call[d].key = call[c].key
    /\ call[d].prior = NoResponse
    /\ ~call[d].overlap

C36_State ==
    \A c \in CallIds :
        DispatchFailed(c) =>
            /\ call[c].job # 0 /\ ~call[c].dispatched
            /\ \A m \in queue : m.job # call[c].job
            /\ jobs[call[c].job].status = FAILED
            /\ jobs[call[c].job].error = call[c].failure
            /\ cache[call[c].key] # <<>> =>
                   JsonLoads(cache[call[c].key]).job_id # call[c].job
            /\ \A d \in CallIds :
                   LaterSameKey(c, d) =>
                       /\ call[d].pc \notin {"get", "create"} =>
                              call[d].job \notin {0, call[c].job}
                       /\ Returned(d) =>
                              /\ call[d].dispatched
                              /\ call[d].resp.job_id = call[d].job

C36_Step ==
    \A c \in CallIds :
        DispatchFailed(c) =>
            /\ jobs'[call[c].job] = jobs[call[c].job]
            /\ DispatchFailed(c)'
            /\ \A d \in CallIds :
                   (LaterSameKey(c, d) /\ call[d].pc = "get") =>
                       call'[d].pc \in {"get", "create"}

C36_FailedDispatchNotCached == [][C36_State' /\ C36_Step]_vars

C36_Witness ==
    \E c, d \in CallIds :
        /\ DispatchFailed(c) /\ LaterSameKey(c, d)
        /\ Returned(d) /\ call[d].dispatched
        /\ call[d].job \notin {0, call[c].job}
        /\ jobs[call[c].job].status = FAILED
        /\ cache[call[d].key] = JsonDumps(call[d].resp)

\* C37: in every state of the job store: a COMPLETED job has its result and
\* its processed/failed counters are those of the result; a FAILED job has
\* its error message; a PENDING job has zero counters, no result, no error.
CompletedHasResult(jm) ==
    jm.status = COMPLETED =>
        /\ jm.result # NoResult
        /\ jm.processed_hospitals = jm.result.processed_hospitals
        /\ jm.failed_hospitals = jm.result.failed_hospitals

FailedHasError(jm) == jm.status = FAILED => jm.error # None

PendingIsBlank(jm) ==
    jm.status = PENDING =>
        /\ jm.processed_hospitals = 0 /\ jm.failed_hospitals = 0
        /\ jm.result = NoResult /\ jm.error = None

C37_StatusRecord ==
    \A j \in JobIds :
        jobs[j] # AbsentJob =>
            /\ CompletedHasResult(jobs[j])
            /\ FailedHasError(jobs[j])
            /\ PendingIsBlank(jobs[j])

\* C38: in every stored job result, batch_activated is true exactly when
\* every item result is created_and_activated; when it is false no item
\* result is created_and_activated; when it is true the failed count is 0;
\* and an item result carries a hospital id exactly when it is not failed.
Activated(result) ==
    {i \in DOMAIN result.hospitals :
        result.hospitals[i].status = "created_and_activated"}

ResultConsistent(result) ==
    /\ result.batch_activated <=> Activated(result) = DOMAIN result.hospitals
    /\ ~result.batch_activated => Activated(result) = {}
    /\ result.batch_activated => result.failed_hospitals = 0
    /\ \A i \in DOMAIN result.hospitals :
           result.hospitals[i].hospital_id # 0
               <=> result.hospitals[i].status # "failed"

C38_StoredResult ==
    \A j \in JobIds :
        (jobs[j] # AbsentJob /\ jobs[j].result # NoResult) =>
            ResultConsistent(jobs[j].result)

\* A stored result of two items that were created and then activated.
C38_Witness ==
    \E j \in JobIds :
        /\ jobs[j] # AbsentJob /\ jobs[j].result # NoResult
        /\ Len(jobs[j].result.hospitals) = MaxItems
        /\ jobs[j].result.batch_activated
        /\ Activated(jobs[j].result) = 1..MaxItems
        /\ \A i \in 1..MaxItems : jobs[j].result.hospitals[i].hospital_id # 0

====
